---- MODULE Spec2Model ----
(***************************************************************************)
(* A model of mdcat's two Markdown renderers:                              *)
(*   - render::write_event / render::finish (src/render/mod.rs), the       *)
(*     state machine over State = TopLevel | NestedState(Box<State>, _);   *)
(*   - context_write::write_event (src/context_write.rs), the renderer     *)
(*     that mutates a Context.                                             *)
(* Both are driven by a stream of pulldown_cmark events.  The sink is      *)
(* modelled by the writes of the last step (a sequence of tokens) and by   *)
(* the reference lines written so far.                                     *)
(***************************************************************************)
EXTENDS Integers, Sequences, FiniteSets, TLC

\* ------------------------------------------------------------------ bounds
\* The longest chain of open tags the event stream builds.
MaxDepth == 3
\* The number of reference links a stream may register.
MaxLinks == 2
\* The number of items the stream puts into one list.
MaxItems == 2
\* The most writes a failing sink accepts before it fails.
MaxWrites == 2
\* The number of events of a document whose whole output is kept.
MaxEvents == 8

\* The terminal widths the settings are drawn from.
Widths == {30}
\* The widths of the terminals of SpecNarrow.
NarrowWidths == {2, 20, 21}

\* How deep the lists of SpecPair nest.
MaxListDepth == 3

\* The language tokens the syntax set resolves.
KnownSyntaxes == {"rust"}

VARIABLES
    settings,   \* Settings: terminal capabilities and size
    open,       \* the tags the stream has opened and not yet closed
    wf,         \* the stream fed so far is well-formed
    ev,         \* the event processed last
    state,      \* render: State
    data,       \* render: StateData
    rstatus,    \* render: "running", "panicked" or "finished"
    rout,       \* render: the writes of the last step
    rrefs,      \* render: indices of the reference lines written so far
    rissued,    \* render: indices handed out by add_link so far
    ctx,        \* context_write: the fields of Context
    cstatus,    \* context_write: "running", "panicked" or "finished"
    cout,       \* context_write: the writes of the last step
    crefs,      \* context_write: indices of the reference lines written so far
    cissued,    \* context_write: indices handed out by add_link so far
    sink,       \* the sink: whether it fails, and the writes it accepts before
    rtried,     \* render: the writes the last step attempted
    twin,       \* render: a second run of the same stream under StyleCap None
    doc         \* render: the events fed and everything written since the start

envVars == <<settings, open, wf, ev>>
rVars == <<state, data, rstatus, rout, rrefs, rissued>>
cVars == <<ctx, cstatus, cout, crefs, cissued>>
sinkVars == <<sink, rtried>>
vars == <<settings, open, wf, ev, state, data, rstatus, rout, rrefs, rissued,
          ctx, cstatus, cout, crefs, cissued, sink, rtried, twin, doc>>

\* ------------------------------------------------------------------ styles
\* ansi_term::Style, restricted to the attributes the renderers set.
StyleNew == [fg |-> "Default", is_bold |-> FALSE, is_italic |-> FALSE,
             is_strikethrough |-> FALSE]

Fg(style, colour) == [style EXCEPT !.fg = colour]

Bold(style) == [style EXCEPT !.is_bold = TRUE]

Italic(style) == [style EXCEPT !.is_italic = TRUE]

Strikethrough(style) == [style EXCEPT !.is_strikethrough = TRUE]

\* ------------------------------------------------------------------ sink
\* One write to the sink.  w is the kind of write, s its text, n a count
\* (spaces of an indent, repetitions of a character, a link index); ansi
\* tells whether the text is wrapped in the SGR sequences of style.
Tok(w, s, n, ansi, style) ==
    [w |-> w, s |-> s, n |-> n, ansi |-> ansi, style |-> style]

Newline == Tok("nl", "", 0, FALSE, StyleNew)

\* write!(writer, "{}", " ".repeat(level)): no byte reaches the sink for level 0.
WriteIndent(level) ==
    IF level = 0 THEN <<>> ELSE <<Tok("indent", " ", level, FALSE, StyleNew)>>

\* WriteStyled as it would be if unstyled text were left out under Ansi.
WriteStyledAnsiDropsPlain(style, w, s, n) ==
    IF settings.style = "Ansi"
    THEN (IF style = StyleNew THEN <<>> ELSE <<Tok(w, s, n, TRUE, style)>>)
    ELSE <<Tok(w, s, n, FALSE, StyleNew)>>

WriteStyled(style, w, s, n) ==
    IF settings.style = "Ansi"
    THEN <<Tok(w, s, n, TRUE, style)>>
    ELSE <<Tok(w, s, n, FALSE, StyleNew)>>

WriteMark ==
    IF settings.marks = "ITerm2"
    THEN <<Tok("mark", "", 0, FALSE, StyleNew)>>
    ELSE <<>>

WriteRule(length) == WriteStyled(Fg(StyleNew, "Green"), "rule", "U+2550", length)

Min(a, b) == IF a < b THEN a ELSE b

\* WriteBorder as it would be if the border spanned the terminal.
WriteBorderFullWidth ==
    WriteStyled(Fg(StyleNew, "Green"), "border", "U+2500", settings.width)
        \o <<Newline>>

WriteBorder ==
    WriteStyled(Fg(StyleNew, "Green"), "border", "U+2500", Min(settings.width, 20))
        \o <<Newline>>

RECURSIVE WriteLinkLines(_, _)
WriteLinkLines(links, style) ==
    IF links = <<>> THEN <<>>
    ELSE WriteStyled(style, "linkref", Head(links).target, Head(links).index)
            \o <<Newline>> \o WriteLinkLines(Tail(links), style)

\* WriteLinkRefs as it would be if it stopped after the first link.
WriteLinkRefsFirstOnly(links) ==
    IF links # <<>>
    THEN <<Newline>> \o WriteLinkLines(<<Head(links)>>, Fg(StyleNew, "Blue"))
    ELSE <<>>

WriteLinkRefs(links) ==
    IF links # <<>>
    THEN <<Newline>> \o WriteLinkLines(links, Fg(StyleNew, "Blue"))
    ELSE <<>>

\* The indices of the reference lines among the writes out.
RECURSIVE RefsOf(_)
RefsOf(out) ==
    IF out = <<>> THEN <<>>
    ELSE (IF Head(out).w = "linkref" THEN <<Head(out).n>> ELSE <<>>)
            \o RefsOf(Tail(out))

\* ------------------------------------------------------------------ events
\* pulldown_cmark::Tag.  n is the level of a Heading or the start of an ordered
\* List; s is the kind of a CodeBlock ("Indented", "Fenced"), the Option tag of
\* a List ("None", "Some") or the LinkType of a Link; target is the language
\* token of a fenced CodeBlock or the destination of a Link or Image.
Tag(t, n, s, target) == [t |-> t, n |-> n, s |-> s, target |-> target]

NoTag == Tag("", 0, "", "")

Paragraph == Tag("Paragraph", 0, "", "")

Heading(level) == Tag("Heading", level, "", "")

BlockQuote == Tag("BlockQuote", 0, "", "")

CodeBlock(kind, name) == Tag("CodeBlock", 0, kind, name)

List(opt, start) == Tag("List", start, opt, "")

Item == Tag("Item", 0, "", "")

Emphasis == Tag("Emphasis", 0, "", "")

Strong == Tag("Strong", 0, "", "")

StrikethroughTag == Tag("Strikethrough", 0, "", "")

Link(link_type, target) == Tag("Link", 0, link_type, target)

Image(target) == Tag("Image", 0, "Inline", target)

\* One line of a text as LinesWithEndings yields it: nl tells whether the line
\* ends with '\n'.
Line(s, nl) == [s |-> s, nl |-> nl]

\* pulldown_cmark::Event.  txt is the text of Text, Code and Html, as its
\* lines; b is the flag of TaskListMarker.
Event(k, tag, txt, b) == [k |-> k, tag |-> tag, txt |-> txt, b |-> b]

NoEvent == Event("None", NoTag, <<>>, FALSE)

Start(tag) == Event("Start", tag, <<>>, FALSE)

End(tag) == Event("End", tag, <<>>, FALSE)

Text(txt) == Event("Text", NoTag, txt, FALSE)

Code(txt) == Event("Code", NoTag, txt, FALSE)

Html(txt) == Event("Html", NoTag, txt, FALSE)

SoftBreak == Event("SoftBreak", NoTag, <<>>, FALSE)

HardBreak == Event("HardBreak", NoTag, <<>>, FALSE)

Rule == Event("Rule", NoTag, <<>>, FALSE)

TaskListMarker(checked) == Event("TaskListMarker", NoTag, <<>>, checked)

FootnoteReference == Event("FootnoteReference", NoTag, <<>>, FALSE)

\* ------------------------------------------------------------------ render: state
\* render::state::State as the chain of its frames: state[1] is TopLevel(attrs)
\* and NestedState(return_to, inner) is Append(return_to, inner).  A frame
\* carries the attributes of its variant; the others keep their defaults.
Frame(kind, sub, margin_before, indent, style, item_type, no, newline_before) ==
    [kind |-> kind, sub |-> sub, margin_before |-> margin_before,
     indent |-> indent, style |-> style, item_type |-> item_type, no |-> no,
     newline_before |-> newline_before]

TopLevel(margin_before) ==
    <<Frame("TopLevel", "", margin_before, 0, StyleNew, "", 0, FALSE)>>

TopLevelAttrsMarginBefore == "Margin"

TopLevelAttrsNoMarginForHtmlOnly == "NoMarginForHTMLOnly"

TopLevelAttrsDefault == "NoMargin"

StateDefault == TopLevel(TopLevelAttrsDefault)

NestedState(return_to, inner) == Append(return_to, inner)

StyledBlock(margin_before, style, indent) ==
    Frame("StyledBlock", "", margin_before, indent, style, "", 0, FALSE)

ListBlock(item_type, no, newline_before, indent, style) ==
    Frame("ListBlock", "", "", indent, style, item_type, no, newline_before)

LiteralBlock(indent, style) ==
    Frame("LiteralBlock", "", "", indent, style, "", 0, FALSE)

HighlightBlock(indent) ==
    Frame("HighlightBlock", "", "", indent, StyleNew, "", 0, FALSE)

Inline(sub, style, indent) ==
    Frame("Inline", sub, "", indent, style, "", 0, FALSE)

WithMarginBefore(attrs) == [attrs EXCEPT !.margin_before = "Margin"]

WithoutMarginForHtmlOnly(attrs) ==
    [attrs EXCEPT !.margin_before = "NoMarginForHTMLOnly"]

\* NextItem as it would be if the number of an ordered list stood still.
NextItemSameNumber(attrs) == [attrs EXCEPT !.newline_before = TRUE]

NextItem(attrs) ==
    [attrs EXCEPT !.no = IF attrs.item_type = "Ordered" THEN attrs.no + 1
                          ELSE attrs.no,
                  !.newline_before = TRUE]

IsTopLevel(st) == Len(st) = 1

Inner(st) == st[Len(st)]

ReturnTo(st) == SubSeq(st, 1, Len(st) - 1)

\* ------------------------------------------------------------------ render: data
\* render::data::StateData: the pending links and the index of the next link.
LinkRec(index, target) == [index |-> index, target |-> target]

StateDataDefault == [pending_links |-> <<>>, next_link |-> 1]

TakeLinks(d) ==
    [data |-> [d EXCEPT !.pending_links = <<>>], links |-> d.pending_links]

AddLink(d, target) ==
    [data |-> [pending_links |->
                   Append(d.pending_links, LinkRec(d.next_link, target)),
               next_link |-> d.next_link + 1],
     index |-> d.next_link]

\* ------------------------------------------------------------------ render: results
\* The result of one step: Ok((state, data)) with the writes it made, or a panic.
Ok(st, d, out) == [ok |-> TRUE, state |-> st, data |-> d, out |-> out]

\* A panic after the writes out have reached the sink.
PanicAfter(st, d, out) == [ok |-> FALSE, state |-> st, data |-> d, out |-> out]

Panic(st, d) == PanicAfter(st, d, <<>>)

\* Every write of write_event, finish and write.rs is `write!(..)?` or the
\* value returned: the first write the sink refuses ends the step with Err.
\* OnSink(r, s) is the step whose writes on a good sink are r.out, made on the
\* sink s: tried counts the writes attempted.
\* OnSink as it would be if a refused write were tried a second time.
OnSinkRetriesOnce(r, s) ==
    IF s.fails /\ Len(r.out) > s.left
    THEN [ok |-> FALSE, err |-> TRUE, state |-> r.state, data |-> r.data,
          out |-> SubSeq(r.out, 1, s.left), tried |-> s.left + 2]
    ELSE [ok |-> r.ok, err |-> FALSE, state |-> r.state, data |-> r.data,
          out |-> r.out, tried |-> Len(r.out)]

OnSink(r, s) ==
    IF s.fails /\ Len(r.out) > s.left
    THEN [ok |-> FALSE, err |-> TRUE, state |-> r.state, data |-> r.data,
          out |-> SubSeq(r.out, 1, s.left), tried |-> s.left + 1]
    ELSE [ok |-> r.ok, err |-> FALSE, state |-> r.state, data |-> r.data,
          out |-> r.out, tried |-> Len(r.out)]

MarginUnlessNoMargin(attrs) ==
    IF attrs.margin_before # "NoMargin" THEN <<Newline>> ELSE <<>>

MarginIfMargin(attrs) ==
    IF attrs.margin_before = "Margin" THEN <<Newline>> ELSE <<>>

\* ------------------------------------------------------------------ render: writes
\* write_styled of a text given as its lines: the bytes of the lines in order.
RECURSIVE StyledLines(_, _)
StyledLines(style, txt) ==
    IF txt = <<>> THEN <<>>
    ELSE WriteStyled(style, IF Head(txt).nl THEN "textnl" ELSE "text",
                     Head(txt).s, 1)
            \o StyledLines(style, Tail(txt))

EndsWithNewline(txt) == txt # <<>> /\ txt[Len(txt)].nl

\* Url::parse(target).or_else(|_| Url::from_file_path(base_dir.join(target))).ok()
\* is Some for a target that parses as a URL or that is an absolute path, and
\* for a relative path when base_dir is absolute.
UrlTargets == {"http://e.com", "http://e.com/i.png"}

AbsolutePathTargets == {"/doc.md"}

ResolveReference(target) ==
    target \in UrlTargets \/ target \in AbsolutePathTargets
        \/ settings.base_dir_absolute

ListItemTypeOf(start) == IF start.s = "None" THEN "Unordered" ELSE "Ordered"

\* WriteStartCodeBlock as it would be if a literal block dropped the style of
\* the block it is in.
WriteStartCodeBlockYellowOnly(return_to, indent, style, kind) ==
    LET out == WriteIndent(indent) \o WriteBorder \o WriteIndent(indent)
        literal == NestedState(return_to, LiteralBlock(indent, Fg(StyleNew, "Yellow")))
    IN  IF settings.style = "Ansi" /\ kind.s = "Fenced" /\ kind.target # ""
        THEN IF kind.target \in settings.syntax_set
             THEN Ok(NestedState(return_to, HighlightBlock(indent)), <<>>, out)
             ELSE Ok(literal, <<>>, out)
        ELSE Ok(literal, <<>>, out)

WriteStartCodeBlock(return_to, indent, style, kind) ==
    LET out == WriteIndent(indent) \o WriteBorder \o WriteIndent(indent)
        literal == NestedState(return_to, LiteralBlock(indent, Fg(style, "Yellow")))
    IN  IF settings.style = "Ansi" /\ kind.s = "Fenced" /\ kind.target # ""
        THEN IF kind.target \in settings.syntax_set
             THEN Ok(NestedState(return_to, HighlightBlock(indent)), <<>>, out)
             ELSE Ok(literal, <<>>, out)
        ELSE Ok(literal, <<>>, out)

WritelnReturningToToplevel(st) == IF IsTopLevel(st) THEN <<Newline>> ELSE <<>>

\* ------------------------------------------------------------------ render: top level
TopLevelStartParagraph(attrs, d) ==
    Ok(NestedState(TopLevel(TopLevelAttrsMarginBefore),
                   Inline("InlineText", StyleNew, 0)),
       d, MarginUnlessNoMargin(attrs))

\* TopLevelStartHeading as it would be if the mark were set before the margin.
TopLevelStartHeadingMarkFirst(attrs, d, level) ==
    LET taken == TakeLinks(d)
        style == Bold(Fg(StyleNew, "Blue"))
    IN  Ok(NestedState(TopLevel(TopLevelAttrsMarginBefore),
                       Inline("InlineText", style, 0)),
           taken.data,
           WriteLinkRefs(taken.links) \o WriteMark \o MarginUnlessNoMargin(attrs)
               \o WriteStyled(style, "heading", "U+2504", level))

TopLevelStartHeading(attrs, d, level) ==
    LET taken == TakeLinks(d)
        style == Bold(Fg(StyleNew, "Blue"))
    IN  Ok(NestedState(TopLevel(TopLevelAttrsMarginBefore),
                       Inline("InlineText", style, 0)),
           taken.data,
           WriteLinkRefs(taken.links) \o MarginUnlessNoMargin(attrs)
               \o WriteMark \o WriteStyled(style, "heading", "U+2504", level))

TopLevelStartBlockQuote(attrs, d) ==
    Ok(NestedState(TopLevel(TopLevelAttrsMarginBefore),
                   StyledBlock("NoMargin", Fg(Italic(StyleNew), "Green"), 4)),
       d, MarginUnlessNoMargin(attrs))

\* TopLevelRule as it would be if it kept the attributes it was given.
TopLevelRuleKeepsAttrs(attrs, d) ==
    Ok(<<attrs>>, d,
       MarginUnlessNoMargin(attrs) \o WriteRule(settings.width) \o <<Newline>>)

TopLevelRule(attrs, d) ==
    Ok(TopLevel(TopLevelAttrsMarginBefore), d,
       MarginUnlessNoMargin(attrs) \o WriteRule(settings.width) \o <<Newline>>)

TopLevelStartCodeBlock(attrs, d, kind) ==
    LET r == WriteStartCodeBlock(TopLevel(TopLevelAttrsMarginBefore), 0,
                                 StyleNew, kind)
    IN  Ok(r.state, d, MarginUnlessNoMargin(attrs) \o r.out)

TopLevelStartList(attrs, d, start) ==
    Ok(NestedState(TopLevel(TopLevelAttrsMarginBefore),
                   ListBlock(ListItemTypeOf(start), start.n, FALSE, 0, StyleNew)),
       d, MarginUnlessNoMargin(attrs))

TopLevelHtml(attrs, d, html) ==
    Ok(TopLevel(TopLevelAttrsNoMarginForHtmlOnly), d,
       MarginIfMargin(attrs) \o StyledLines(Fg(StyleNew, "Green"), html))

\* ------------------------------------------------------------------ render: styled blocks
StyledBlockStartParagraph(return_to, attrs, d) ==
    Ok(NestedState(NestedState(return_to, WithMarginBefore(attrs)),
                   Inline("InlineText", attrs.style, attrs.indent)),
       d, MarginUnlessNoMargin(attrs) \o WriteIndent(attrs.indent))

\* settings.terminal_size.width - (attrs.indent as usize) is a usize
\* subtraction: it panics on underflow with overflow checks, and without them
\* wraps to a length no String can hold, which aborts too.
StyledBlockRule(return_to, attrs, d) ==
    IF settings.width < attrs.indent
    THEN PanicAfter(NestedState(return_to, attrs), d,
                    MarginUnlessNoMargin(attrs) \o WriteIndent(attrs.indent))
    ELSE Ok(NestedState(return_to, WithMarginBefore(attrs)), d,
            MarginUnlessNoMargin(attrs) \o WriteIndent(attrs.indent)
                \o WriteRule(settings.width - attrs.indent) \o <<Newline>>)

StyledBlockStartHeading(return_to, attrs, d, level) ==
    LET style == Bold(attrs.style)
    IN  Ok(NestedState(NestedState(return_to, WithMarginBefore(attrs)),
                       Inline("InlineText", style, attrs.indent)),
           d,
           MarginUnlessNoMargin(attrs) \o WriteIndent(attrs.indent)
               \o WriteStyled(style, "heading", "U+2504", level))

StyledBlockStartList(return_to, attrs, d, start) ==
    Ok(NestedState(NestedState(return_to, attrs),
                   ListBlock(ListItemTypeOf(start), start.n, FALSE,
                             attrs.indent, attrs.style)),
       d, MarginUnlessNoMargin(attrs))

StyledBlockStartCodeBlock(return_to, attrs, d, kind) ==
    LET r == WriteStartCodeBlock(NestedState(return_to, attrs), attrs.indent,
                                 attrs.style, kind)
    IN  Ok(r.state, d, MarginUnlessNoMargin(attrs) \o r.out)

StyledBlockHtml(return_to, attrs, d, html) ==
    Ok(NestedState(return_to, WithoutMarginForHtmlOnly(attrs)), d,
       MarginIfMargin(attrs) \o WriteIndent(attrs.indent)
           \o StyledLines(Fg(attrs.style, "Green"), html))

StyledBlockEndItem(return_to, d) == Ok(return_to, d, <<>>)

\* ------------------------------------------------------------------ render: lists
\* The decimal digits of n.
RECURSIVE Digits(_)
Digits(n) == IF n < 10 THEN 1 ELSE 1 + Digits(n \div 10)

\* The columns of format!("{:>2}. ", no): the number, padded on the left to
\* two columns and never cut, a dot and a space.
NumberMarkerColumns(no) == (IF Digits(no) < 2 THEN 2 ELSE Digits(no)) + 2

\* The columns of "\u{2022} ".
BulletMarkerColumns == 2

ListBlockStartItem(return_to, attrs, d) ==
    LET unordered == attrs.item_type = "Unordered"
        marker == IF unordered
                  THEN <<Tok("bullet", "U+2022 ", 1, FALSE, StyleNew)>>
                  ELSE <<Tok("number", "{:>2}. ", attrs.no, FALSE, StyleNew)>>
        indent == IF unordered THEN attrs.indent + 2 ELSE attrs.indent + 4
    IN  Ok(NestedState(NestedState(return_to, NextItem(attrs)),
                       Inline("ListItemText", attrs.style, indent)),
           d,
           (IF attrs.newline_before THEN <<Newline>> ELSE <<>>)
               \o WriteIndent(attrs.indent) \o marker)

\* ListBlockEndList as it would be if every list ended with a newline.
ListBlockEndListNewline(return_to, d) == Ok(return_to, d, <<Newline>>)

ListBlockEndList(return_to, d) ==
    Ok(return_to, d, WritelnReturningToToplevel(return_to))

\* ------------------------------------------------------------------ render: list items
\* ListItemStartParagraph as it would be if the block that replaces the item's
\* frame started without margin.
ListItemStartParagraphNoMargin(return_to, attrs, d) ==
    Ok(NestedState(NestedState(return_to,
                               StyledBlock("NoMargin", attrs.style, attrs.indent)),
                   Inline("InlineText", attrs.style, attrs.indent)),
       d, <<>>)

ListItemStartParagraph(return_to, attrs, d) ==
    Ok(NestedState(NestedState(return_to,
                               StyledBlock("Margin", attrs.style, attrs.indent)),
                   Inline("InlineText", attrs.style, attrs.indent)),
       d, <<>>)

\* ListItemStartList as it would be if the nested list started on the line of
\* the item's marker.
ListItemStartListSameLine(return_to, attrs, d, start) ==
    Ok(NestedState(NestedState(return_to,
                               StyledBlock("Margin", attrs.style, attrs.indent)),
                   ListBlock(ListItemTypeOf(start), start.n, FALSE,
                             attrs.indent, attrs.style)),
       d, <<>>)

\* ListItemStartList as it would be if the nested list reset the list it is in
\* to its first item.
ListItemStartListResetsOuter(return_to, attrs, d, start) ==
    Ok(NestedState(NestedState([return_to EXCEPT
                                    ![Len(return_to)].newline_before = FALSE],
                               StyledBlock("Margin", attrs.style, attrs.indent)),
                   ListBlock(ListItemTypeOf(start), start.n, FALSE,
                             attrs.indent, attrs.style)),
       d, <<Newline>>)

ListItemStartList(return_to, attrs, d, start) ==
    Ok(NestedState(NestedState(return_to,
                               StyledBlock("Margin", attrs.style, attrs.indent)),
                   ListBlock(ListItemTypeOf(start), start.n, FALSE,
                             attrs.indent, attrs.style)),
       d, <<Newline>>)

ListItemStartCodeBlock(return_to, attrs, d, kind) ==
    LET r == WriteStartCodeBlock(
                 NestedState(return_to,
                             StyledBlock("Margin", attrs.style, attrs.indent)),
                 attrs.indent, attrs.style, kind)
    IN  Ok(r.state, d, <<Newline>> \o r.out)

\* ListItemRule as it would be if the block were pushed on the item's frame
\* instead of replacing it.
ListItemRuleOnItemFrame(return_to, attrs, d) ==
    IF settings.width < attrs.indent
    THEN PanicAfter(NestedState(return_to, attrs), d,
                    <<Newline>> \o WriteIndent(attrs.indent))
    ELSE Ok(NestedState(NestedState(return_to, attrs),
                        StyledBlock("Margin", attrs.style, attrs.indent)),
            d,
            <<Newline>> \o WriteIndent(attrs.indent)
                \o WriteRule(settings.width - attrs.indent) \o <<Newline>>)

ListItemRule(return_to, attrs, d) ==
    IF settings.width < attrs.indent
    THEN PanicAfter(NestedState(return_to, attrs), d,
                    <<Newline>> \o WriteIndent(attrs.indent))
    ELSE Ok(NestedState(return_to,
                        StyledBlock("Margin", attrs.style, attrs.indent)),
            d,
            <<Newline>> \o WriteIndent(attrs.indent)
                \o WriteRule(settings.width - attrs.indent) \o <<Newline>>)

\* ------------------------------------------------------------------ render: code blocks
RECURSIVE LiteralLines(_, _, _)
LiteralLines(style, indent, txt) ==
    IF txt = <<>> THEN <<>>
    ELSE WriteStyled(style, IF Head(txt).nl THEN "textnl" ELSE "text",
                     Head(txt).s, 1)
            \o (IF Head(txt).nl THEN WriteIndent(indent) ELSE <<>>)
            \o LiteralLines(style, indent, Tail(txt))

LiteralBlockText(return_to, attrs, d, text) ==
    Ok(NestedState(return_to, attrs), d,
       LiteralLines(attrs.style, attrs.indent, text))

WriteBlockBorderEnd(return_to, d) == Ok(return_to, d, WriteBorder)

LiteralBlockEndCodeBlock(return_to, d) == WriteBlockBorderEnd(return_to, d)

\* The spans highlighting::write_as_ansi writes for one line, as one write.
WriteAsAnsi(line) ==
    <<Tok(IF line.nl THEN "textnl" ELSE "text", line.s, 1, TRUE, StyleNew)>>

\* The indent follows a line when the whole text ends with '\n'.
RECURSIVE HighlightLines(_, _, _)
HighlightLines(indent, text_ends_with_newline, txt) ==
    IF txt = <<>> THEN <<>>
    ELSE WriteAsAnsi(Head(txt))
            \o (IF text_ends_with_newline THEN WriteIndent(indent) ELSE <<>>)
            \o HighlightLines(indent, text_ends_with_newline, Tail(txt))

HighlightBlockText(return_to, attrs, d, text) ==
    Ok(NestedState(return_to, attrs), d,
       HighlightLines(attrs.indent, EndsWithNewline(text), text))

HighlightBlockEndCodeBlock(return_to, d) == WriteBlockBorderEnd(return_to, d)

\* ------------------------------------------------------------------ render: inline markup
InlineStartEmphasis(return_to, attrs, d) ==
    Ok(NestedState(NestedState(return_to, attrs),
                   Inline("InlineText",
                          [attrs.style EXCEPT !.is_italic = ~attrs.style.is_italic],
                          attrs.indent)),
       d, <<>>)

InlineEndEmphasis(return_to, d) == Ok(return_to, d, <<>>)

InlineStartStrong(return_to, attrs, d) ==
    Ok(NestedState(NestedState(return_to, attrs),
                   Inline("InlineText", Bold(attrs.style), attrs.indent)),
       d, <<>>)

InlineEndStrong(return_to, d) == Ok(return_to, d, <<>>)

InlineStartStrikethrough(return_to, attrs, d) ==
    Ok(NestedState(NestedState(return_to, attrs),
                   Inline("InlineText", Strikethrough(attrs.style), attrs.indent)),
       d, <<>>)

InlineEndStrikethrough(return_to, d) == Ok(return_to, d, <<>>)

InlineCode(return_to, attrs, d, code) ==
    Ok(NestedState(return_to, attrs), d,
       StyledLines(Fg(attrs.style, "Yellow"), code))

ListItemTaskListMarker(return_to, attrs, d, checked) ==
    Ok(NestedState(return_to, attrs), d,
       WriteStyled(attrs.style, "text",
                   IF checked THEN "U+2611 " ELSE "U+2610 ", 1))

InlineSoftBreak(return_to, attrs, d) ==
    Ok(NestedState(return_to, attrs), d,
       <<Newline>> \o WriteIndent(attrs.indent))

InlineHardBreak(return_to, attrs, d) ==
    Ok(NestedState(return_to, attrs), d,
       <<Newline>> \o WriteIndent(attrs.indent))

InlineText(return_to, attrs, d, text) ==
    Ok(NestedState(return_to, attrs), d, StyledLines(attrs.style, text))

InlineHtml(return_to, attrs, d, html) ==
    Ok(NestedState(return_to, attrs), d,
       StyledLines(Fg(attrs.style, "Green"), html))

ListItemEndItem(return_to, d) == Ok(return_to, d, <<>>)

\* InlineEndParagraph as it would be if the end of a paragraph went straight
\* back to the top level.
InlineEndParagraphToTopLevel(return_to, d) ==
    Ok(TopLevel(TopLevelAttrsMarginBefore), d, <<Newline>>)

InlineEndParagraph(return_to, d) == Ok(return_to, d, <<Newline>>)

InlineEndHeading(return_to, d) == Ok(return_to, d, <<Newline>>)

\* ------------------------------------------------------------------ render: links
Osc8SetLinkUrl(target) == <<Tok("osc8-open", target, 0, FALSE, StyleNew)>>

Osc8ClearLink == <<Tok("osc8-close", "", 0, FALSE, StyleNew)>>

InlineTextStartLink(return_to, attrs, d, target) ==
    LET style == Fg(attrs.style, "Blue")
        parent == NestedState(return_to, attrs)
    IN  IF settings.links = "OSC8"
        THEN IF ResolveReference(target)
             THEN Ok(NestedState(parent, Inline("InlineLink", style, attrs.indent)),
                     d, Osc8SetLinkUrl(target))
             ELSE Ok(NestedState(parent, Inline("InlineText", style, attrs.indent)),
                     d, <<>>)
        ELSE Ok(NestedState(parent, Inline("InlineText", style, attrs.indent)),
                d, <<>>)

InlineLinkEndLink(return_to, attrs, d) ==
    IF settings.links = "OSC8"
    THEN Ok(return_to, d, Osc8ClearLink)
    ELSE Panic(NestedState(return_to, attrs), d)

InlineTextEndAutolink(return_to, d) == Ok(return_to, d, <<>>)

InlineTextEndEmail(return_to, d) == Ok(return_to, d, <<>>)

\* InlineTextEndLink as it would be if the link were recorded without writing
\* its number after the link text.
InlineTextEndLinkUnmarked(return_to, attrs, d, target) ==
    Ok(return_to, AddLink(d, target).data, <<>>)

InlineTextEndLink(return_to, attrs, d, target) ==
    LET added == AddLink(d, target)
    IN  Ok(return_to, added.data,
           WriteStyled(Fg(attrs.style, "Blue"), "ref", "[{}]", added.index))

EndBlockQuote(return_to, d) == Ok(return_to, d, <<>>)

\* ------------------------------------------------------------------ render: write_event
\* The match of write_event on (state, event); the arms are pairwise disjoint,
\* and every pair no arm names reaches the panic of an impossible pair.
WriteEventTopLevel(st, d, e) ==
    LET attrs == Inner(st)
    IN  CASE e.k = "Start" /\ e.tag.t = "Paragraph" -> TopLevelStartParagraph(attrs, d)
          [] e.k = "Start" /\ e.tag.t = "Heading" -> TopLevelStartHeading(attrs, d, e.tag.n)
          [] e.k = "Start" /\ e.tag.t = "BlockQuote" -> TopLevelStartBlockQuote(attrs, d)
          [] e.k = "Rule" -> TopLevelRule(attrs, d)
          [] e.k = "Start" /\ e.tag.t = "CodeBlock" -> TopLevelStartCodeBlock(attrs, d, e.tag)
          [] e.k = "Start" /\ e.tag.t = "List" -> TopLevelStartList(attrs, d, e.tag)
          [] e.k = "Html" -> TopLevelHtml(attrs, d, e.txt)
          [] OTHER -> Panic(st, d)

WriteEventStyledBlock(st, d, e) ==
    LET attrs == Inner(st)
        return_to == ReturnTo(st)
    IN  CASE e.k = "Start" /\ e.tag.t = "Paragraph" ->
                StyledBlockStartParagraph(return_to, attrs, d)
          [] e.k = "Rule" -> StyledBlockRule(return_to, attrs, d)
          [] e.k = "Start" /\ e.tag.t = "Heading" ->
                StyledBlockStartHeading(return_to, attrs, d, e.tag.n)
          [] e.k = "Start" /\ e.tag.t = "List" ->
                StyledBlockStartList(return_to, attrs, d, e.tag)
          [] e.k = "Start" /\ e.tag.t = "CodeBlock" ->
                StyledBlockStartCodeBlock(return_to, attrs, d, e.tag)
          [] e.k = "Html" -> StyledBlockHtml(return_to, attrs, d, e.txt)
          [] e.k = "End" /\ e.tag.t = "Item" -> StyledBlockEndItem(return_to, d)
          [] e.k = "End" /\ e.tag.t = "BlockQuote" -> EndBlockQuote(return_to, d)
          [] OTHER -> Panic(st, d)

WriteEventListBlock(st, d, e) ==
    LET attrs == Inner(st)
        return_to == ReturnTo(st)
    IN  CASE e.k = "Start" /\ e.tag.t = "Item" ->
                ListBlockStartItem(return_to, attrs, d)
          [] e.k = "End" /\ e.tag.t = "List" -> ListBlockEndList(return_to, d)
          [] e.k = "End" /\ e.tag.t = "BlockQuote" -> EndBlockQuote(return_to, d)
          [] OTHER -> Panic(st, d)

WriteEventLiteralBlock(st, d, e) ==
    LET attrs == Inner(st)
        return_to == ReturnTo(st)
    IN  CASE e.k = "Text" -> LiteralBlockText(return_to, attrs, d, e.txt)
          [] e.k = "End" /\ e.tag.t = "CodeBlock" ->
                LiteralBlockEndCodeBlock(return_to, d)
          [] e.k = "End" /\ e.tag.t = "BlockQuote" -> EndBlockQuote(return_to, d)
          [] OTHER -> Panic(st, d)

WriteEventHighlightBlock(st, d, e) ==
    LET attrs == Inner(st)
        return_to == ReturnTo(st)
    IN  CASE e.k = "Text" -> HighlightBlockText(return_to, attrs, d, e.txt)
          [] e.k = "End" /\ e.tag.t = "CodeBlock" ->
                HighlightBlockEndCodeBlock(return_to, d)
          [] e.k = "End" /\ e.tag.t = "BlockQuote" -> EndBlockQuote(return_to, d)
          [] OTHER -> Panic(st, d)

WriteEventInline(st, d, e) ==
    LET attrs == Inner(st)
        return_to == ReturnTo(st)
        sub == attrs.sub
    IN  CASE sub = "ListItemText" /\ e.k = "Start" /\ e.tag.t = "Paragraph" ->
                ListItemStartParagraph(return_to, attrs, d)
          [] sub = "ListItemText" /\ e.k = "Start" /\ e.tag.t = "List" ->
                ListItemStartList(return_to, attrs, d, e.tag)
          [] sub = "ListItemText" /\ e.k = "Start" /\ e.tag.t = "CodeBlock" ->
                ListItemStartCodeBlock(return_to, attrs, d, e.tag)
          [] sub = "ListItemText" /\ e.k = "Rule" ->
                ListItemRule(return_to, attrs, d)
          [] e.k = "Start" /\ e.tag.t = "Emphasis" ->
                InlineStartEmphasis(return_to, attrs, d)
          [] e.k = "End" /\ e.tag.t = "Emphasis" -> InlineEndEmphasis(return_to, d)
          [] e.k = "Start" /\ e.tag.t = "Strong" ->
                InlineStartStrong(return_to, attrs, d)
          [] e.k = "End" /\ e.tag.t = "Strong" -> InlineEndStrong(return_to, d)
          [] e.k = "Start" /\ e.tag.t = "Strikethrough" ->
                InlineStartStrikethrough(return_to, attrs, d)
          [] e.k = "End" /\ e.tag.t = "Strikethrough" ->
                InlineEndStrikethrough(return_to, d)
          [] e.k = "Code" -> InlineCode(return_to, attrs, d, e.txt)
          [] sub = "ListItemText" /\ e.k = "TaskListMarker" ->
                ListItemTaskListMarker(return_to, attrs, d, e.b)
          [] e.k = "SoftBreak" -> InlineSoftBreak(return_to, attrs, d)
          [] e.k = "HardBreak" -> InlineHardBreak(return_to, attrs, d)
          [] e.k = "Text" -> InlineText(return_to, attrs, d, e.txt)
          [] e.k = "Html" -> InlineHtml(return_to, attrs, d, e.txt)
          [] sub = "ListItemText" /\ e.k = "End" /\ e.tag.t = "Item" ->
                ListItemEndItem(return_to, d)
          [] e.k = "End" /\ e.tag.t = "Paragraph" -> InlineEndParagraph(return_to, d)
          [] e.k = "End" /\ e.tag.t = "Heading" -> InlineEndHeading(return_to, d)
          [] sub = "InlineText" /\ e.k = "Start" /\ e.tag.t = "Link" ->
                InlineTextStartLink(return_to, attrs, d, e.tag.target)
          [] sub = "InlineLink" /\ e.k = "End" /\ e.tag.t = "Link" ->
                InlineLinkEndLink(return_to, attrs, d)
          [] sub = "InlineText" /\ e.k = "End" /\ e.tag.t = "Link"
                /\ e.tag.s = "Autolink" -> InlineTextEndAutolink(return_to, d)
          [] sub = "InlineText" /\ e.k = "End" /\ e.tag.t = "Link"
                /\ e.tag.s = "Email" -> InlineTextEndEmail(return_to, d)
          [] sub = "InlineText" /\ e.k = "End" /\ e.tag.t = "Link"
                /\ e.tag.s \notin {"Autolink", "Email"} ->
                InlineTextEndLink(return_to, attrs, d, e.tag.target)
          [] e.k = "End" /\ e.tag.t = "BlockQuote" -> EndBlockQuote(return_to, d)
          [] OTHER -> Panic(st, d)

WriteEvent(st, d, e) ==
    IF IsTopLevel(st) THEN WriteEventTopLevel(st, d, e)
    ELSE CASE Inner(st).kind = "StyledBlock" -> WriteEventStyledBlock(st, d, e)
           [] Inner(st).kind = "ListBlock" -> WriteEventListBlock(st, d, e)
           [] Inner(st).kind = "LiteralBlock" -> WriteEventLiteralBlock(st, d, e)
           [] Inner(st).kind = "HighlightBlock" -> WriteEventHighlightBlock(st, d, e)
           [] Inner(st).kind = "Inline" -> WriteEventInline(st, d, e)

\* Finish as it would be if it always ended the output with a newline.
FinishEndsLine(st, d) ==
    IF IsTopLevel(st)
    THEN Ok(st, [d EXCEPT !.pending_links = <<>>],
            WriteLinkRefs(d.pending_links) \o <<Newline>>)
    ELSE Panic(st, d)

\* Finish as it would be if the links were written before the state is matched.
FinishWritesFirst(st, d) ==
    IF IsTopLevel(st)
    THEN Ok(st, [d EXCEPT !.pending_links = <<>>], WriteLinkRefs(d.pending_links))
    ELSE PanicAfter(st, d, WriteLinkRefs(d.pending_links))

\* render::finish: the pending links are written from a TopLevel state; any
\* other state panics before anything is written.  data.pending_links is moved
\* into write_link_refs, so no link is pending afterwards.
Finish(st, d) ==
    IF IsTopLevel(st)
    THEN Ok(st, [d EXCEPT !.pending_links = <<>>], WriteLinkRefs(d.pending_links))
    ELSE Panic(st, d)

\* ------------------------------------------------------------------ context_write: Context
\* The fields of Context that change while rendering.  current_highlighter is
\* TRUE for Some(_); links.current_link_type is "" for None; an element of
\* list_item_kind is a ListItemKind with the number of Ordered.
ListItemKind(kind, number) == [kind |-> kind, number |-> number]

ContextNew ==
    [current_highlighter |-> FALSE,
     style |-> [current |-> StyleNew, previous |-> <<>>, emphasis_level |-> 0],
     block |-> [indent_level |-> 0, level |-> "Inline"],
     links |-> [pending_links |-> <<>>, next_link_index |-> 1,
                current_link_type |-> "", inside_inline_link |-> FALSE],
     image |-> [inline_image |-> FALSE],
     list_item_kind |-> <<>>]

\* The result of a method or of a step: the context and the writes made.
CtxOk(c, out) == [ok |-> TRUE, ctx |-> c, out |-> out]

CtxPanic(c) == [ok |-> FALSE, ctx |-> c, out |-> <<>>]

\* ResourceAccess::permits: remote URLs are refused when access is local only.
Permits(target) ==
    settings.resource_access = "RemoteAllowed" \/ target \notin UrlTargets

CtxIndent(c) == WriteIndent(c.block.indent_level)

NewlineAndIndent(c) == <<Newline>> \o CtxIndent(c)

StartInlineText(c) ==
    CtxOk([c EXCEPT !.block.level = "Inline"],
          IF c.block.level = "Block" THEN NewlineAndIndent(c) ELSE <<>>)

EndInlineTextWithMargin(c) ==
    CtxOk([c EXCEPT !.block.level = "Block"],
          IF c.block.level = "Inline" THEN <<Newline>> ELSE <<>>)

SetStyle(c, style) ==
    [c EXCEPT !.style.previous = Append(@, c.style.current),
              !.style.current = style]

DropStyle(c) ==
    IF c.style.previous # <<>>
    THEN [c EXCEPT !.style.current = c.style.previous[Len(c.style.previous)],
                   !.style.previous = SubSeq(@, 1, Len(@) - 1)]
    ELSE [c EXCEPT !.style.current = StyleNew]

EnableEmphasis(c) ==
    LET level == c.style.emphasis_level + 1
    IN  SetStyle([c EXCEPT !.style.emphasis_level = level],
                 [c.style.current EXCEPT !.is_italic = (level % 2 = 1)])

CtxAddLink(c, destination) ==
    [ctx |-> [c EXCEPT !.links.next_link_index = @ + 1,
                       !.links.pending_links =
                           Append(@, LinkRec(c.links.next_link_index, destination))],
     index |-> c.links.next_link_index]

\* WritePendingLinks as it would be if the flush restarted the numbering.
WritePendingLinksResetsIndex(c) ==
    IF c.links.pending_links # <<>>
    THEN CtxOk([c EXCEPT !.links.pending_links = <<>>,
                         !.links.next_link_index = 1],
               <<Newline>> \o WriteLinkLines(c.links.pending_links,
                                             Fg(c.style.current, "Blue")))
    ELSE CtxOk(c, <<>>)

WritePendingLinks(c) ==
    IF c.links.pending_links # <<>>
    THEN CtxOk([c EXCEPT !.links.pending_links = <<>>],
               <<Newline>> \o WriteLinkLines(c.links.pending_links,
                                             Fg(c.style.current, "Blue")))
    ELSE CtxOk(c, <<>>)

CtxWriteBorder(c) ==
    WriteStyled(Fg(c.style.current, "Green"), "border", "U+2500",
                Min(settings.width, 20))
        \o <<Newline>>

RECURSIVE AnsiLines(_)
AnsiLines(txt) ==
    IF txt = <<>> THEN <<>> ELSE WriteAsAnsi(Head(txt)) \o AnsiLines(Tail(txt))

WriteHighlighted(c, text) ==
    IF c.current_highlighter /\ settings.style = "Ansi"
    THEN AnsiLines(text)
    ELSE StyledLines(c.style.current, text)

SetMarkIfSupported == WriteMark

\* ------------------------------------------------------------------ context_write: start_tag
StartTagParagraph(c) == StartInlineText(c)

StartTagHeading(c, level) ==
    LET flushed == WritePendingLinks(c)
        started == StartInlineText(flushed.ctx)
        styled == SetStyle(started.ctx, Bold(Fg(StyleNew, "Blue")))
    IN  CtxOk(styled,
              flushed.out \o started.out \o SetMarkIfSupported
                  \o WriteStyled(styled.style.current, "heading", "U+2504", level))

StartTagBlockQuote(c) ==
    LET started == StartInlineText([c EXCEPT !.block.indent_level = @ + 4])
        emphasised == EnableEmphasis(started.ctx)
    IN  CtxOk([emphasised EXCEPT !.style.current = Fg(@, "Green")], started.out)

StartTagCodeBlock(c, kind) ==
    LET started == StartInlineText(c)
        found == kind.s = "Fenced" /\ kind.target # ""
                    /\ kind.target \in settings.syntax_set
        with == [started.ctx EXCEPT !.current_highlighter = found]
    IN  CtxOk(IF found THEN with ELSE SetStyle(with, Fg(with.style.current, "Yellow")),
              started.out \o CtxWriteBorder(started.ctx))

StartTagList(c, kind) ==
    CtxOk([c EXCEPT !.list_item_kind =
                        Append(@, ListItemKind(ListItemTypeOf(kind), kind.n))],
          <<Newline>>)

StartTagItem(c) ==
    IF c.list_item_kind = <<>>
    THEN [ok |-> FALSE, ctx |-> [c EXCEPT !.block.level = "Inline"],
          out |-> CtxIndent(c)]
    ELSE LET n == Len(c.list_item_kind)
             kind == c.list_item_kind[n]
         IN  IF kind.kind = "Unordered"
             THEN CtxOk([c EXCEPT !.block.level = "Inline",
                                  !.block.indent_level = @ + 2],
                        CtxIndent(c) \o <<Tok("bullet", "U+2022 ", 1, FALSE, StyleNew)>>)
             ELSE CtxOk([c EXCEPT !.block.level = "Inline",
                                  !.block.indent_level = @ + 4,
                                  !.list_item_kind[n].number = @ + 1],
                        CtxIndent(c)
                            \o <<Tok("number", "{:>2}. ", kind.number, FALSE, StyleNew)>>)

StartTagUnsupported(c) == CtxPanic(c)

StartTagStrikethrough(c) == CtxOk(SetStyle(c, Strikethrough(c.style.current)), <<>>)

StartTagEmphasis(c) == CtxOk(EnableEmphasis(c), <<>>)

StartTagStrong(c) == CtxOk(SetStyle(c, Bold(c.style.current)), <<>>)

StartTagLink(c, link_type, destination) ==
    LET typed == [c EXCEPT !.links.current_link_type = link_type]
    IN  IF settings.links = "OSC8" /\ ResolveReference(destination)
        THEN CtxOk([typed EXCEPT !.links.inside_inline_link = TRUE],
                   Osc8SetLinkUrl(destination))
        ELSE CtxOk(typed, <<>>)

\* read_ok: whether read_and_render of the image succeeds.
StartTagImage(c, link, read_ok) ==
    LET url == ResolveReference(link) /\ Permits(link)
        inline == [c EXCEPT !.image.inline_image = TRUE]
        written == <<Tok("image", link, 0, FALSE, StyleNew)>>
    IN  CASE settings.image = "Terminology" /\ url -> CtxOk(inline, written)
          [] settings.image \in {"ITerm2", "Kitty"} /\ url ->
                IF read_ok THEN CtxOk(inline, written) ELSE CtxOk(c, <<>>)
          [] OTHER -> CtxOk(c, <<>>)

StartTag(c, tag, read_ok) ==
    CASE tag.t = "Paragraph" -> StartTagParagraph(c)
      [] tag.t = "Heading" -> StartTagHeading(c, tag.n)
      [] tag.t = "BlockQuote" -> StartTagBlockQuote(c)
      [] tag.t = "CodeBlock" -> StartTagCodeBlock(c, tag)
      [] tag.t = "List" -> StartTagList(c, tag)
      [] tag.t = "Item" -> StartTagItem(c)
      [] tag.t \in {"FootnoteDefinition", "Table", "TableHead", "TableRow",
                    "TableCell"} -> StartTagUnsupported(c)
      [] tag.t = "Strikethrough" -> StartTagStrikethrough(c)
      [] tag.t = "Emphasis" -> StartTagEmphasis(c)
      [] tag.t = "Strong" -> StartTagStrong(c)
      [] tag.t = "Link" -> StartTagLink(c, tag.s, tag.target)
      [] tag.t = "Image" -> StartTagImage(c, tag.target, read_ok)

\* ------------------------------------------------------------------ context_write: end_tag
EndTagParagraph(c) == EndInlineTextWithMargin(c)

EndTagHeading(c) == EndInlineTextWithMargin(DropStyle(c))

\* The subtractions of end_tag undo the additions of the matching start_tag.
EndTagBlockQuote(c) ==
    EndInlineTextWithMargin(
        DropStyle([c EXCEPT !.block.indent_level = @ - 4,
                            !.style.emphasis_level = @ - 1]))

EndTagCodeBlock(c) ==
    LET dropped == IF c.current_highlighter
                   THEN [c EXCEPT !.current_highlighter = FALSE]
                   ELSE DropStyle(c)
    IN  CtxOk([dropped EXCEPT !.block.level = "Block"], CtxWriteBorder(dropped))

EndTagList(c) ==
    EndInlineTextWithMargin(
        [c EXCEPT !.list_item_kind =
                      IF @ = <<>> THEN <<>> ELSE SubSeq(@, 1, Len(@) - 1)])

EndTagItem(c) ==
    LET n == Len(c.list_item_kind)
        less == CASE n = 0 -> 0
                  [] n > 0 /\ c.list_item_kind[n].kind = "Ordered" -> 4
                  [] OTHER -> 2
    IN  EndInlineTextWithMargin([c EXCEPT !.block.indent_level = @ - less])

EndTagUnsupported(c) == CtxOk(c, <<>>)

EndTagStrikethrough(c) == CtxOk(DropStyle(c), <<>>)

\* EndTagEmphasis as it would be if the emphasis level were never taken back.
EndTagEmphasisKeepsLevel(c) == CtxOk(DropStyle(c), <<>>)

EndTagEmphasis(c) ==
    CtxOk([DropStyle(c) EXCEPT !.style.emphasis_level = @ - 1], <<>>)

\* EndTagStrong as it would be if the style pushed by the start stayed.
EndTagStrongKeepsStyle(c) == CtxOk(c, <<>>)

EndTagStrong(c) == CtxOk(DropStyle(c), <<>>)

\* EndTagLink as it would be if autolinks and email links got a reference too.
EndTagLinkNumbersAutolinks(c, destination) ==
    IF c.links.inside_inline_link
    THEN CtxOk([c EXCEPT !.links.inside_inline_link = FALSE],
               IF settings.links = "OSC8" THEN Osc8ClearLink ELSE <<>>)
    ELSE LET added == CtxAddLink(c, destination)
         IN  CtxOk(added.ctx,
                   WriteStyled(Fg(c.style.current, "Blue"), "ref", "[{}]",
                               added.index))

EndTagLink(c, destination) ==
    IF c.links.inside_inline_link
    THEN CtxOk([c EXCEPT !.links.inside_inline_link = FALSE],
               IF settings.links = "OSC8" THEN Osc8ClearLink ELSE <<>>)
    ELSE IF c.links.current_link_type \in {"Autolink", "Email"}
         THEN CtxOk(c, <<>>)
         ELSE LET added == CtxAddLink(c, destination)
              IN  CtxOk(added.ctx,
                        WriteStyled(Fg(c.style.current, "Blue"), "ref", "[{}]",
                                    added.index))

EndTagImage(c, link) ==
    CtxOk([c EXCEPT !.image.inline_image = FALSE],
          IF c.image.inline_image THEN <<>>
          ELSE WriteStyled(Fg(c.style.current, "Blue"), "imagelink", link, 0))

EndTag(c, tag) ==
    CASE tag.t = "Paragraph" -> EndTagParagraph(c)
      [] tag.t = "Heading" -> EndTagHeading(c)
      [] tag.t = "BlockQuote" -> EndTagBlockQuote(c)
      [] tag.t = "CodeBlock" -> EndTagCodeBlock(c)
      [] tag.t = "List" -> EndTagList(c)
      [] tag.t = "Item" -> EndTagItem(c)
      [] tag.t \in {"FootnoteDefinition", "Table", "TableHead", "TableRow",
                    "TableCell"} -> EndTagUnsupported(c)
      [] tag.t = "Strikethrough" -> EndTagStrikethrough(c)
      [] tag.t = "Emphasis" -> EndTagEmphasis(c)
      [] tag.t = "Strong" -> EndTagStrong(c)
      [] tag.t = "Link" -> EndTagLink(c, tag.target)
      [] tag.t = "Image" -> EndTagImage(c, tag.target)

\* ------------------------------------------------------------------ context_write: write_event
CtxBreak(c) == CtxOk(c, NewlineAndIndent(c))

CtxRule(c) ==
    LET started == StartInlineText(c)
        ended == EndInlineTextWithMargin(started.ctx)
    IN  CtxOk(ended.ctx,
              started.out
                  \o WriteStyled(Fg(c.style.current, "Green"), "rule", "U+2550",
                                 settings.width)
                  \o ended.out)

CtxCode(c, code) == CtxOk(c, StyledLines(Fg(c.style.current, "Yellow"), code))

CtxText(c, text) ==
    CtxOk(c, IF c.image.inline_image THEN <<>> ELSE WriteHighlighted(c, text))

CtxTaskListMarker(c, checked) ==
    CtxOk(c, WriteHighlighted(c, <<Line(IF checked THEN "U+2611 " ELSE "U+2610 ",
                                        FALSE)>>))

CtxHtml(c, content) == CtxOk(c, StyledLines(Fg(c.style.current, "Green"), content))

CtxFootnoteReference(c) == CtxPanic(c)

CtxWriteEvent(c, e, read_ok) ==
    CASE e.k \in {"SoftBreak", "HardBreak"} -> CtxBreak(c)
      [] e.k = "Rule" -> CtxRule(c)
      [] e.k = "Code" -> CtxCode(c, e.txt)
      [] e.k = "Text" -> CtxText(c, e.txt)
      [] e.k = "TaskListMarker" -> CtxTaskListMarker(c, e.b)
      [] e.k = "Start" -> StartTag(c, e.tag, read_ok)
      [] e.k = "End" -> EndTag(c, e.tag)
      [] e.k = "Html" -> CtxHtml(c, e.txt)
      [] e.k = "FootnoteReference" -> CtxFootnoteReference(c)

\* ------------------------------------------------------------------ the event stream
\* The stream is generated event by event.  open holds, innermost last, the
\* tags that are open; an entry records whether a block child has started in
\* it (blk), for a List, how many items it has had (items) and, for an Image,
\* whether context_write rendered it inline at its Start (inline).
Entry(tag) == [tag |-> tag, blk |-> FALSE, items |-> 0, inline |-> FALSE]

HeadingLevels == {2}

CodeBlockKinds ==
    {CodeBlock("Indented", ""), CodeBlock("Fenced", ""),
     CodeBlock("Fenced", "rust"), CodeBlock("Fenced", "zz")}

\* An ordered list starts at 99: its items are numbered with two digits and,
\* from the second on, with three.
ListStarts == {List("None", 0), List("Some", 99)}

LinkTags ==
    {Link("Inline", "http://e.com"), Link("Inline", "doc.md"),
     Link("Autolink", "http://e.com"), Link("Email", "me@e.com")}

ImageTags == {Image("http://e.com/i.png"), Image("i.png")}

BlockStarts ==
    {Paragraph, BlockQuote} \cup {Heading(l) : l \in HeadingLevels}
        \cup CodeBlockKinds \cup ListStarts

UnsupportedTags ==
    {Tag(t, 0, "", "") :
        t \in {"Table", "TableHead", "TableRow", "TableCell", "FootnoteDefinition"}}

\* A text of inline content has no line break; a text of a code block is one
\* or more lines, the last of which may lack its '\n'.
InlineTexts == {<<Line("x", FALSE)>>}

CodeTexts ==
    {<<Line("a", FALSE)>>, <<Line("a", TRUE)>>,
     <<Line("a", TRUE), Line("b", FALSE)>>, <<Line("a", TRUE), Line("b", TRUE)>>}

\* Where the stream is: at block level, directly in a list, in a list item
\* before its first block child, in inline content, in the text of an autolink
\* (which is its destination, without markup), or in a code block.
Where(o) ==
    IF o = <<>> THEN "block"
    ELSE LET top == o[Len(o)]
         IN  CASE top.tag.t = "BlockQuote" -> "block"
               [] top.tag.t = "List" -> "list"
               [] top.tag.t = "Item" -> IF top.blk THEN "block" ELSE "item"
               [] top.tag.t = "CodeBlock" -> "code"
               [] top.tag.t = "Link" /\ top.tag.s \in {"Autolink", "Email"} ->
                     "autolink"
               [] OTHER -> "inline"

InLink(o) == \E i \in 1..Len(o) : o[i].tag.t = "Link"

InImage(o) == \E i \in 1..Len(o) : o[i].tag.t = "Image"

\* The images open.
ImagesOpen(o) == Cardinality({i \in 1..Len(o) : o[i].tag.t = "Image"})

\* The streams fed nest no link in a link.  The description of an image is
\* without markup but may hold an image, whose description holds none.
InlineStarts(o) ==
    CASE ImagesOpen(o) = 0 ->
            {Emphasis, Strong, StrikethroughTag} \cup ImageTags
                \cup (IF InLink(o) THEN {} ELSE LinkTags)
      [] ImagesOpen(o) = 1 -> ImageTags
      [] OTHER -> {}

\* The tags a well-formed stream may open next.
AllowedStarts(o) ==
    CASE Where(o) = "block" -> BlockStarts
      [] Where(o) = "item" -> BlockStarts \cup InlineStarts(o)
      [] Where(o) = "inline" -> InlineStarts(o)
      [] Where(o) = "list" ->
            IF o[Len(o)].items < MaxItems THEN {Item} ELSE {}
      [] Where(o) \in {"code", "autolink"} -> {}

\* The events other than Start and End a well-formed stream may hold next.
AllowedLeaves(o) ==
    CASE Where(o) = "block" -> {Rule} \cup {Html(t) : t \in InlineTexts}
      [] Where(o) = "item" ->
            {Rule, SoftBreak, HardBreak, TaskListMarker(TRUE), TaskListMarker(FALSE)}
                \cup {Text(t) : t \in InlineTexts} \cup {Code(t) : t \in InlineTexts}
                \cup {Html(t) : t \in InlineTexts}
      [] Where(o) = "inline" ->
            {SoftBreak, HardBreak}
                \cup {Text(t) : t \in InlineTexts} \cup {Code(t) : t \in InlineTexts}
                \cup {Html(t) : t \in InlineTexts}
      [] Where(o) = "list" -> {}
      [] Where(o) = "code" -> {Text(t) : t \in CodeTexts}
      [] Where(o) = "autolink" -> {Text(t) : t \in InlineTexts}

IsBlockEvent(e) ==
    e.k = "Rule" \/ (e.k = "Start" /\ e.tag \in BlockStarts)

\* open after a block child has started in its innermost entry.
MarkBlock(o, e) ==
    IF o # <<>> /\ o[Len(o)].tag.t = "Item" /\ IsBlockEvent(e)
    THEN [o EXCEPT ![Len(o)].blk = TRUE]
    ELSE o

CountItem(o, tag) ==
    IF tag.t = "Item" THEN [o EXCEPT ![Len(o)].items = @ + 1] ELSE o

OpenAfter(o, e) ==
    CASE e.k = "Start" -> Append(CountItem(MarkBlock(o, e), e.tag), Entry(e.tag))
      [] e.k = "End" -> SubSeq(o, 1, Len(o) - 1)
      [] OTHER -> MarkBlock(o, e)

\* The End events that do not close the innermost open tag.
ClosableTags ==
    {Paragraph, Heading(1), BlockQuote, CodeBlock("Indented", ""),
     List("None", 0), Item, Emphasis, Strong, StrikethroughTag,
     Link("Inline", "http://e.com"), Link("Autolink", "http://e.com"),
     Image("i.png")}

MismatchedEnds(o) ==
    {End(t) : t \in {c \in ClosableTags : o = <<>> \/ c.t # o[Len(o)].tag.t}}

UnsupportedEvents ==
    {Start(t) : t \in UnsupportedTags} \cup {End(t) : t \in UnsupportedTags}
        \cup {FootnoteReference}

\* The settings a run is made under, as (style, links, marks, image,
\* resource_access, base_dir is absolute): every value of every capability
\* occurs, and every pair of values of style, links and marks.
SettingsRows ==
    {<<"None", "None", "None", "None", "RemoteAllowed", FALSE>>,
     <<"None", "OSC8", "ITerm2", "Terminology", "LocalOnly", TRUE>>,
     <<"Ansi", "None", "ITerm2", "ITerm2", "RemoteAllowed", TRUE>>,
     <<"Ansi", "OSC8", "None", "Kitty", "RemoteAllowed", FALSE>>}

SettingsSet ==
    {[style |-> c[1], links |-> c[2], marks |-> c[3], image |-> c[4],
      resource_access |-> c[5], base_dir_absolute |-> c[6],
      width |-> w, syntax_set |-> KnownSyntaxes] :
        c \in SettingsRows, w \in Widths}

\* ------------------------------------------------------------------ render: the driver
InitEnv ==
    /\ settings \in SettingsSet
    /\ open = <<>>
    /\ wf = TRUE
    /\ ev = NoEvent

InitRender ==
    /\ state = StateDefault
    /\ data = StateDataDefault
    /\ rstatus = "running"
    /\ rout = <<>>
    /\ rrefs = <<>>
    /\ rissued = <<>>

\* The indices written as '[N]' among the writes out.
RECURSIVE IssuedOf(_)
IssuedOf(out) ==
    IF out = <<>> THEN <<>>
    ELSE (IF Head(out).w = "ref" THEN <<Head(out).n>> ELSE <<>>)
            \o IssuedOf(Tail(out))

\* One call of a step function by the driver: the successor state and data
\* replace the old ones, or the panic or the error of the sink ends the
\* program.
RenderApply(r) ==
    /\ state' = IF r.ok THEN r.state ELSE state
    /\ data' = IF r.ok THEN r.data ELSE data
    /\ rout' = r.out
    /\ rtried' = r.tried
    /\ sink' = IF sink.fails THEN [sink EXCEPT !.left = @ - Len(r.out)] ELSE sink
    /\ rrefs' = rrefs \o RefsOf(r.out)
    /\ rissued' = rissued \o IssuedOf(r.out)

StatusAfter(r, done) ==
    CASE r.err -> "failed"
      [] ~r.err /\ r.ok -> done
      [] OTHER -> "panicked"

RenderStep(e) ==
    /\ rstatus = "running"
    /\ \E r \in {OnSink(WriteEvent(state, data, e), sink)} :
           /\ RenderApply(r)
           /\ rstatus' = StatusAfter(r, "running")

RenderFinish ==
    /\ rstatus = "running"
    /\ \E r \in {OnSink(Finish(state, data), sink)} :
           /\ RenderApply(r)
           /\ rstatus' = StatusAfter(r, "finished")

\* A well-formed continuation of the stream.
EnvFeed(e) ==
    /\ wf
    /\ open' = OpenAfter(open, e)
    /\ ev' = e
    /\ UNCHANGED <<settings, wf>>

\* A link registers a reference at its End: the bound on registered links.
LinkBudget(tag, issued) == tag.t = "Link" => Len(issued) < MaxLinks

RStart ==
    \E tag \in AllowedStarts(open) :
        /\ Len(open) < MaxDepth
        /\ LinkBudget(tag, rissued)
        /\ EnvFeed(Start(tag))
        /\ RenderStep(Start(tag))
        /\ UNCHANGED <<cVars, twin, doc>>

REnd ==
    /\ open # <<>>
    /\ EnvFeed(End(open[Len(open)].tag))
    /\ RenderStep(End(open[Len(open)].tag))
    /\ UNCHANGED <<cVars, twin, doc>>

RLeaf ==
    \E e \in AllowedLeaves(open) :
        /\ EnvFeed(e)
        /\ RenderStep(e)
        /\ UNCHANGED <<cVars, twin, doc>>

\* The stream ends: finish is called with the state reached.  A stream that
\* ends with a tag open is ill-formed.
RFinish ==
    /\ wf
    /\ wf' = (open = <<>>)
    /\ ev' = Event("Finish", NoTag, <<>>, FALSE)
    /\ UNCHANGED <<settings, open>>
    /\ RenderFinish
    /\ UNCHANGED <<cVars, twin, doc>>

InitCtx ==
    /\ ctx = ContextNew
    /\ cstatus = "running"
    /\ cout = <<>>
    /\ crefs = <<>>
    /\ cissued = <<>>

\* A sink that takes every write.
InitSinkGood ==
    /\ sink = [fails |-> FALSE, left |-> 0]
    /\ rtried = 0

\* A sink that fails after at most MaxWrites writes.
InitSinkFailing ==
    /\ sink \in {[fails |-> TRUE, left |-> n] : n \in 0..MaxWrites}
    /\ rtried = 0

InitTwinIdle ==
    twin = [state |-> StateDefault, data |-> StateDataDefault, out |-> <<>>,
            status |-> "running"]

InitDocIdle == doc = [events |-> <<>>, out |-> <<>>]

Init ==
    InitEnv /\ InitRender /\ InitCtx /\ InitSinkGood /\ InitTwinIdle /\ InitDocIdle

Next == RStart \/ REnd \/ RLeaf \/ RFinish

Spec == Init /\ [][Next]_vars

\* The same driver on a sink that fails.
InitSink ==
    InitEnv /\ InitRender /\ InitCtx /\ InitSinkFailing /\ InitTwinIdle
        /\ InitDocIdle

SpecSink == InitSink /\ [][Next]_vars

\* The same driver on terminals narrower and wider than a border, without
\* capabilities.
NarrowSettings ==
    {[s EXCEPT !.width = w] :
        s \in {x \in SettingsSet : x.style = "None" /\ x.links = "None"},
        w \in NarrowWidths}

InitNarrow ==
    /\ settings \in NarrowSettings
    /\ open = <<>>
    /\ wf = TRUE
    /\ ev = NoEvent
    /\ InitRender /\ InitCtx /\ InitSinkGood /\ InitTwinIdle /\ InitDocIdle

SpecNarrow == InitNarrow /\ [][Next]_vars

\* ------------------------------------------------------------------ two runs of one stream
\* The same stream rendered twice, under StyleCap None (twin) and under
\* StyleCap Ansi (state, data, rout), with all other settings alike.  The two
\* runs take turns: while settings.style is "None" the next event is chosen
\* and the twin processes it, then the settings are those of the Ansi run,
\* which processes the same event.
NoCodeImageLink(tag) == tag.t \notin {"CodeBlock", "Image", "Link"}

TwinAfter(r, done) ==
    [state |-> IF r.ok THEN r.state ELSE twin.state,
     data |-> IF r.ok THEN r.data ELSE twin.data,
     out |-> r.out,
     status |-> IF r.ok THEN done ELSE "panicked"]

TwinFeed(e) ==
    /\ settings.style = "None"
    /\ wf
    /\ twin.status = "running"
    /\ rstatus = "running"
    /\ twin' = IF e.k = "Finish"
               THEN TwinAfter(Finish(twin.state, twin.data), "finished")
               ELSE TwinAfter(WriteEvent(twin.state, twin.data, e), "running")
    /\ ev' = e
    /\ settings' = [settings EXCEPT !.style = "Ansi"]
    /\ UNCHANGED <<open, wf, rVars, cVars, sinkVars, doc>>

TStart ==
    \E tag \in {t \in AllowedStarts(open) : NoCodeImageLink(t)} :
        /\ Len(open) < MaxDepth
        /\ TwinFeed(Start(tag))

TEnd ==
    /\ open # <<>>
    /\ TwinFeed(End(open[Len(open)].tag))

TLeaf == \E e \in AllowedLeaves(open) : TwinFeed(e)

TFinish == TwinFeed(Event("Finish", NoTag, <<>>, FALSE))

\* The Ansi run processes the event the twin has processed.
TEcho ==
    /\ settings.style = "Ansi"
    /\ IF ev.k = "Finish"
       THEN RenderFinish /\ wf' = (open = <<>>) /\ open' = open
       ELSE RenderStep(ev) /\ wf' = wf /\ open' = OpenAfter(open, ev)
    /\ settings' = [settings EXCEPT !.style = "None"]
    /\ UNCHANGED <<ev, twin, cVars, doc>>

InitStyle ==
    /\ settings \in {[r EXCEPT !.style = "None"] : r \in SettingsSet}
    /\ open = <<>>
    /\ wf = TRUE
    /\ ev = NoEvent
    /\ InitRender /\ InitCtx /\ InitSinkGood /\ InitTwinIdle /\ InitDocIdle

NextStyle == TStart \/ TEnd \/ TLeaf \/ TFinish \/ TEcho

SpecStyle == InitStyle /\ [][NextStyle]_vars

\* ------------------------------------------------------------------ whole documents
\* Short documents, rendered from the first event to finish with everything
\* written kept in doc.out: top-level paragraphs and headings of texts and
\* inline links, tight lists of plain-text items, rules, and block quotes of
\* paragraphs and tight lists.
DocLink == Link("Inline", "http://e.com")

DocStarts(o) ==
    CASE o = <<>> ->
            {Paragraph, BlockQuote} \cup {Heading(l) : l \in HeadingLevels}
                \cup ListStarts
      [] o # <<>> /\ Where(o) = "block" -> {Paragraph} \cup ListStarts
      [] o # <<>> /\ Where(o) = "list" -> AllowedStarts(o)
      [] o # <<>> /\ Where(o) = "inline" -> IF InLink(o) THEN {} ELSE {DocLink}
      [] OTHER -> {}

DocLeaves(o) ==
    CASE o = <<>> -> {Rule}
      [] o # <<>> /\ Where(o) \in {"item", "inline"} ->
            IF doc.events # <<>> /\ doc.events[Len(doc.events)].k = "Text"
            THEN {}
            ELSE {Text(t) : t \in InlineTexts}
      [] OTHER -> {}

DocKeep(e) ==
    doc' = [events |-> Append(doc.events, e), out |-> doc.out \o rout']

DStart ==
    \E tag \in DocStarts(open) :
        /\ Len(doc.events) < MaxEvents
        /\ LinkBudget(tag, rissued)
        /\ EnvFeed(Start(tag))
        /\ RenderStep(Start(tag))
        /\ DocKeep(Start(tag))
        /\ UNCHANGED <<cVars, twin>>

DEnd ==
    /\ open # <<>>
    /\ Len(doc.events) < MaxEvents
    /\ EnvFeed(End(open[Len(open)].tag))
    /\ RenderStep(End(open[Len(open)].tag))
    /\ DocKeep(End(open[Len(open)].tag))
    /\ UNCHANGED <<cVars, twin>>

DLeaf ==
    \E e \in DocLeaves(open) :
        /\ Len(doc.events) < MaxEvents
        /\ EnvFeed(e)
        /\ RenderStep(e)
        /\ DocKeep(e)
        /\ UNCHANGED <<cVars, twin>>

\* The document ends; the events kept are those given to write_event.
DFinish ==
    /\ wf
    /\ open = <<>>
    /\ ev' = Event("Finish", NoTag, <<>>, FALSE)
    /\ UNCHANGED <<settings, open, wf>>
    /\ RenderFinish
    /\ doc' = [doc EXCEPT !.out = @ \o rout']
    /\ UNCHANGED <<cVars, twin>>

NextDoc == DStart \/ DEnd \/ DLeaf \/ DFinish

SpecDoc == Init /\ [][NextDoc]_vars

\* ------------------------------------------------------------------ the driver of context_write
\* One call of write_event by the driver: the context returned replaces the
\* old one, or the panic ends the program.
CtxApply(r) ==
    /\ ctx' = r.ctx
    /\ cout' = r.out
    /\ crefs' = crefs \o RefsOf(r.out)
    /\ cissued' = cissued \o IssuedOf(r.out)
    /\ cstatus' = IF r.ok THEN "running" ELSE "panicked"

\* Whether read_and_render succeeds is the environment's choice, made where
\* the code calls it.
ReadOutcomes(e) ==
    IF e.k = "Start" /\ e.tag.t = "Image" /\ settings.image \in {"ITerm2", "Kitty"}
          /\ ResolveReference(e.tag.target) /\ Permits(e.tag.target)
    THEN BOOLEAN ELSE {TRUE}

CtxStep(e) ==
    /\ cstatus = "running"
    /\ \E read_ok \in ReadOutcomes(e) :
           \E r \in {CtxWriteEvent(ctx, e, read_ok)} : CtxApply(r)

\* At the end of the stream the driver writes the links still pending.
CtxFinish ==
    /\ cstatus = "running"
    /\ \E r \in {WritePendingLinks(ctx)} :
           /\ ctx' = r.ctx
           /\ cout' = r.out
           /\ crefs' = crefs \o RefsOf(r.out)
           /\ cissued' = cissued
           /\ cstatus' = "finished"

\* The open tags after a Start whose writes were out: the entry of an image
\* records whether the image was written inline.
NoteInline(o, out) ==
    [o EXCEPT ![Len(o)].inline = \E i \in 1..Len(out) : out[i].w = "image"]

CStart ==
    \E tag \in AllowedStarts(open) :
        /\ Len(open) < MaxDepth
        /\ LinkBudget(tag, cissued)
        /\ wf
        /\ ev' = Start(tag)
        /\ UNCHANGED <<settings, wf>>
        /\ CtxStep(Start(tag))
        /\ open' = NoteInline(OpenAfter(open, Start(tag)), cout')
        /\ UNCHANGED <<rVars, sinkVars, twin, doc>>

CEnd ==
    /\ open # <<>>
    /\ EnvFeed(End(open[Len(open)].tag))
    /\ CtxStep(End(open[Len(open)].tag))
    /\ UNCHANGED <<rVars, sinkVars, twin, doc>>

CLeaf ==
    \E e \in AllowedLeaves(open) :
        /\ EnvFeed(e)
        /\ CtxStep(e)
        /\ UNCHANGED <<rVars, sinkVars, twin, doc>>

CFinish ==
    /\ wf
    /\ open = <<>>
    /\ ev' = Event("Finish", NoTag, <<>>, FALSE)
    /\ UNCHANGED <<settings, open, wf>>
    /\ CtxFinish
    /\ UNCHANGED <<rVars, sinkVars, twin, doc>>

NextCtx == CStart \/ CEnd \/ CLeaf \/ CFinish

SpecCtx == Init /\ [][NextCtx]_vars

\* ------------------------------------------------------------------ both renderers on one stream
\* render::write_event and context_write::write_event are given the same
\* events, one event at a time: top-level paragraphs and headings of text,
\* code, breaks and markup, and lists nested up to MaxListDepth deep whose
\* items hold a text, a list, or a text and then a list.
ListsOpen(o) == Cardinality({i \in 1..Len(o) : o[i].tag.t = "List"})

PairStarts(o) ==
    CASE o = <<>> -> {Paragraph} \cup {Heading(l) : l \in HeadingLevels} \cup ListStarts
      [] o # <<>> /\ Where(o) = "inline" ->
            IF Len(o) < MaxDepth THEN {Emphasis, Strong, StrikethroughTag} ELSE {}
      [] o # <<>> /\ Where(o) = "list" ->
            IF o[Len(o)].items < MaxItems THEN {Item} ELSE {}
      [] o # <<>> /\ Where(o) = "item" ->
            IF ListsOpen(o) < MaxListDepth THEN ListStarts ELSE {}
      [] OTHER -> {}

PairLeaves(o) ==
    CASE o # <<>> /\ Where(o) = "inline" ->
            {SoftBreak, HardBreak} \cup {Text(t) : t \in InlineTexts}
                \cup {Code(t) : t \in InlineTexts}
      [] o # <<>> /\ Where(o) = "item" ->
            IF ev.k = "Text" THEN {} ELSE {Text(t) : t \in InlineTexts}
      [] OTHER -> {}

PStart ==
    \E tag \in PairStarts(open) :
        /\ EnvFeed(Start(tag))
        /\ RenderStep(Start(tag))
        /\ CtxStep(Start(tag))
        /\ UNCHANGED <<twin, doc>>

PEnd ==
    /\ open # <<>>
    /\ EnvFeed(End(open[Len(open)].tag))
    /\ RenderStep(End(open[Len(open)].tag))
    /\ CtxStep(End(open[Len(open)].tag))
    /\ UNCHANGED <<twin, doc>>

PLeaf ==
    \E e \in PairLeaves(open) :
        /\ EnvFeed(e)
        /\ RenderStep(e)
        /\ CtxStep(e)
        /\ UNCHANGED <<twin, doc>>

PFinish ==
    /\ wf
    /\ open = <<>>
    /\ ev' = Event("Finish", NoTag, <<>>, FALSE)
    /\ UNCHANGED <<settings, open, wf>>
    /\ RenderFinish
    /\ CtxFinish
    /\ UNCHANGED <<twin, doc>>

NextPair == PStart \/ PEnd \/ PLeaf \/ PFinish

SpecPair == Init /\ [][NextPair]_vars

\* ------------------------------------------------------------------ claims: render
PendingIndices(d) == [i \in 1..Len(d.pending_links) |-> d.pending_links[i].index]

\* C1: for every well-formed stream, write_event returns a successor state for
\* every event and never reaches the abort of an impossible pair.
C1_WellFormedNeverAborts == wf => rstatus # "panicked"

\* C2: on a well-formed stream the state is TopLevel only if every tag opened
\* so far has been closed.
C2_TopLevelOnlyWhenAllClosed ==
    (wf /\ rstatus = "running" /\ IsTopLevel(state)) => open = <<>>

C2_Witness ==
    /\ wf /\ rstatus = "running" /\ IsTopLevel(state)
    /\ ev.k = "End" /\ ev.tag.t = "BlockQuote"

\* C3 as stated: the state handed to finish at the end of a well-formed stream
\* is TopLevel with margin_before = Margin.
C3_FinishStateHasMargin ==
    (ev.k = "Finish" /\ wf) =>
        (IsTopLevel(state) /\ Inner(state).margin_before = "Margin")

\* The margin_before the top level has after its last event e.
ExpectedFinalMargin(e) ==
    CASE e.k = "None" -> "NoMargin"
      [] e.k = "Html" -> "NoMarginForHTMLOnly"
      [] OTHER -> "Margin"

\* C3 as amended: the state handed to finish at the end of a well-formed stream
\* is TopLevel; its margin_before is NoMargin for the empty stream,
\* NoMarginForHTMLOnly when the last event is a top-level Html, and Margin
\* otherwise.
C3_FinishStateMargin ==
    [][(ev'.k = "Finish" /\ wf') =>
          (IsTopLevel(state)
              /\ Inner(state).margin_before = ExpectedFinalMargin(ev))]_vars

C3_Witness ==
    /\ ev.k = "Finish" /\ wf /\ rstatus = "finished"
    /\ Inner(state).margin_before = "NoMarginForHTMLOnly"

\* C5: immediately after any Start(Heading), at top level or nested, no link
\* is pending.
C5_NoLinkPendingAfterHeading ==
    (rstatus = "running" /\ ev.k = "Start" /\ ev.tag.t = "Heading") =>
        data.pending_links = <<>>

\* C6: the links given an index are written exactly once each, in ascending
\* order: the reference lines written so far followed by the pending links
\* are the indices handed out, and a flush (a top-level heading, finish)
\* leaves every index handed out written.
C6_LinksWrittenOnceInOrder ==
    /\ rrefs \o PendingIndices(data) = rissued
    /\ \A i, j \in 1..Len(rissued) : i < j => rissued[i] < rissued[j]
    /\ (rstatus = "finished"
          \/ (rstatus = "running" /\ ev.k = "Start" /\ ev.tag.t = "Heading"
                /\ Len(state) = 2))
        => (rrefs = rissued /\ data.pending_links = <<>>)

C6_Witness == rstatus = "finished" /\ Len(RefsOf(rout)) = 2

\* C8: an End(T) that does not close the innermost open tag never yields a
\* successor state.
C8_MismatchedEndAborts ==
    (rstatus = "running" /\ wf) =>
        \A e \in MismatchedEnds(open) : ~WriteEvent(state, data, e).ok

\* C9: finish with a TopLevel state writes every pending link reference and
\* returns Ok; finish with a NestedState aborts, writes nothing and leaves the
\* pending links unwritten.
C9_Finish ==
    [][ev'.k = "Finish" =>
          IF IsTopLevel(state)
          THEN rstatus' = "finished" /\ RefsOf(rout') = PendingIndices(data)
                  /\ rrefs' = rrefs \o PendingIndices(data)
          ELSE rstatus' = "panicked" /\ rout' = <<>> /\ rrefs' = rrefs
                  /\ data' = data]_vars

C9_Witness ==
    /\ ev.k = "Finish" /\ rstatus = "panicked" /\ ~IsTopLevel(state)
    /\ data.pending_links # <<>>

\* ------------------------------------------------------------------ claims: context_write
\* C4: across one render the k-th reference link gets index k, also when the
\* pending links were flushed before a heading in between.
C4_IndicesCountFromOne == \A k \in 1..Len(cissued) : cissued[k] = k

\* A flush wrote reference 1 before reference 2 was handed out.
C4_Witness == cstatus = "running" /\ crefs = <<1>> /\ cissued = <<1, 2>>

\* C7: in the context renderer, whenever no tag of a well-formed stream is
\* open, style.previous is empty, the current style is the default and
\* emphasis_level is 0.
C7_StyleRestoredWhenClosed ==
    (wf /\ open = <<>> /\ cstatus # "panicked") =>
        /\ ctx.style.previous = <<>>
        /\ ctx.style.current = StyleNew
        /\ ctx.style.emphasis_level = 0

\* A block quote, which enables emphasis and pushes a style, has been closed
\* at top level.
C7_Witness ==
    /\ cstatus = "running"
    /\ open = <<>>
    /\ ev.k = "End"
    /\ ev.tag.t = "BlockQuote"
    /\ ctx.style.previous = <<>>

\* C10: every table or footnote event aborts the context renderer in every
\* state it can be in.
C10_UnsupportedAlwaysFatal ==
    cstatus = "running" =>
        \A e \in UnsupportedEvents : ~CtxWriteEvent(ctx, e, TRUE).ok

\* ------------------------------------------------------------------ claims: the sink
\* The writes the step for event e makes on a sink that takes them all.
GoodWrites(st, d, e) ==
    IF e.k = "Finish" THEN Finish(st, d).out ELSE WriteEvent(st, d, e).out

\* C11: when a write to the sink fails during write_event or finish, the step
\* ends with the error at once: the writes before the refused one are the only
\* ones made, the refused write is attempted once, nothing after it is
\* attempted, no successor state or data is returned, and no step follows.
C11_SinkErrorReturnedAtOnce ==
    [][/\ rstatus # "failed"
       /\ rstatus' = "failed" =>
            /\ sink.fails
            /\ rout' = SubSeq(GoodWrites(state, data, ev'), 1, sink.left)
            /\ rtried' = sink.left + 1
            /\ state' = state
            /\ data' = data]_vars

\* A step failed on its second write, after its first had reached the sink.
C11_Witness == rstatus = "failed" /\ rtried = 2 /\ Len(rout) = 1

\* ------------------------------------------------------------------ claims: style
\* What a write shows: the token without its escape sequences.
Visible(out) ==
    [i \in 1..Len(out) |-> [w |-> out[i].w, s |-> out[i].s, n |-> out[i].n]]

\* C12: for a well-formed stream without code blocks, images and links, the
\* run under StyleCap None and the run under StyleCap Ansi take the same
\* transitions and write the same visible text, step by step.
C12_StyleOnlyWrapsText ==
    settings.style = "None" =>
        /\ twin.status = rstatus
        /\ twin.state = state
        /\ twin.data = data
        /\ Visible(twin.out) = Visible(rout)

\* Both runs have written an italic text: the Ansi run with its style, the
\* twin without.
C12_Witness ==
    /\ settings.style = "None"
    /\ ev.k = "Text"
    /\ Len(rout) = 1
    /\ rout[1].ansi
    /\ rout[1].style.is_italic
    /\ twin.out # rout

\* ------------------------------------------------------------------ claims: whole documents
AllCapabilitiesNone ==
    /\ settings.style = "None"
    /\ settings.links = "None"
    /\ settings.marks = "None"
    /\ settings.image = "None"

\* One top-level tight list of n >= 1 items, each holding one plain text.
IsTightListDoc(evs) ==
    /\ Len(evs) >= 5
    /\ (Len(evs) - 2) % 3 = 0
    /\ evs[1].k = "Start"
    /\ evs[1].tag.t = "List"
    /\ evs[Len(evs)] = End(evs[1].tag)
    /\ \A i \in 0..((Len(evs) - 2) \div 3 - 1) :
          /\ evs[3 * i + 2] = Start(Item)
          /\ evs[3 * i + 3].k = "Text"
          /\ evs[3 * i + 4] = End(Item)

\* The marker of the k-th item of the list opened by tag.
ItemMarker(tag, k) ==
    IF tag.s = "None"
    THEN [w |-> "bullet", s |-> "U+2022 ", n |-> 1]
    ELSE [w |-> "number", s |-> "{:>2}. ", n |-> tag.n + k - 1]

VisibleNewline == [w |-> "nl", s |-> "", n |-> 0]

RECURSIVE ItemLines(_, _, _)
ItemLines(evs, tag, k) ==
    IF 3 * k + 1 > Len(evs) - 1 THEN <<>>
    ELSE <<ItemMarker(tag, k)>> \o Visible(StyledLines(StyleNew, evs[3 * k].txt))
            \o <<VisibleNewline>> \o ItemLines(evs, tag, k + 1)

\* C13: with all capabilities None, a document of one top-level tight list of
\* plain-text items is written as one newline, then per item its marker, its
\* text and a newline, then one further newline.
C13_TightListDocument ==
    (rstatus = "finished" /\ AllCapabilitiesNone /\ IsTightListDoc(doc.events)) =>
        Visible(doc.out) =
            <<VisibleNewline>> \o ItemLines(doc.events, doc.events[1].tag, 1)
                \o <<VisibleNewline>>

\* One top-level paragraph of texts and inline links.
IsLinkParagraphDoc(evs) ==
    /\ Len(evs) >= 2
    /\ evs[1] = Start(Paragraph)
    /\ evs[Len(evs)] = End(Paragraph)
    /\ \A i \in 2..(Len(evs) - 1) :
          \/ evs[i].k = "Text"
          \/ evs[i].k \in {"Start", "End"} /\ evs[i].tag.t = "Link"
                /\ evs[i].tag.s \notin {"Autolink", "Email"}

\* The destinations of the links that end in evs, in order.
RECURSIVE LinksClosedIn(_)
LinksClosedIn(evs) ==
    IF evs = <<>> THEN <<>>
    ELSE (IF Head(evs).k = "End" /\ Head(evs).tag.t = "Link"
          THEN <<Head(evs).tag.target>> ELSE <<>>) \o LinksClosedIn(Tail(evs))

\* The paragraph as the claim describes it: every text as it stands, and
\* '[N]' where the N-th link ends.
RECURSIVE ParagraphLine(_, _)
ParagraphLine(evs, n) ==
    IF evs = <<>> THEN <<>>
    ELSE LET e == Head(evs)
         IN  CASE e.k = "Text" ->
                     Visible(StyledLines(StyleNew, e.txt)) \o ParagraphLine(Tail(evs), n)
               [] e.k = "End" /\ e.tag.t = "Link" ->
                     <<[w |-> "ref", s |-> "[{}]", n |-> n]>>
                        \o ParagraphLine(Tail(evs), n + 1)
               [] OTHER -> ParagraphLine(Tail(evs), n)

\* One '[N]: DEST TITLE' line per destination, numbered from n.
RECURSIVE ReferenceLines(_, _)
ReferenceLines(targets, n) ==
    IF targets = <<>> THEN <<>>
    ELSE <<[w |-> "linkref", s |-> Head(targets), n |-> n], VisibleNewline>>
            \o ReferenceLines(Tail(targets), n + 1)

ReferenceBlock(targets) ==
    IF targets = <<>> THEN <<>>
    ELSE <<VisibleNewline>> \o ReferenceLines(targets, 1)

\* C14: without inline-link support a paragraph with inline links is written
\* as its text with '[N]' after the N-th link, a newline, and then one empty
\* line and one reference line per link; with no link pending the flush of
\* finish writes nothing at all.
C14_ParagraphLinkReferences ==
    (rstatus = "finished" /\ settings.links = "None") =>
        /\ IsLinkParagraphDoc(doc.events) =>
              Visible(doc.out) =
                  ParagraphLine(doc.events, 1) \o <<VisibleNewline>>
                      \o ReferenceBlock(LinksClosedIn(doc.events))
        /\ LinksClosedIn(doc.events) = <<>> => rout = <<>>

C14_Witness ==
    /\ rstatus = "finished"
    /\ settings.links = "None"
    /\ IsLinkParagraphDoc(doc.events)
    /\ Len(LinksClosedIn(doc.events)) = 2
    /\ RefsOf(rout) = <<1, 2>>
    /\ \E i \in 1..Len(doc.events) : doc.events[i].k = "Text"

C14_WitnessNothingPending ==
    /\ rstatus = "finished"
    /\ settings.links = "None"
    /\ IsLinkParagraphDoc(doc.events)
    /\ LinksClosedIn(doc.events) = <<>>

\* ------------------------------------------------------------------ claims: headings, rules, margins
\* The reference block of the pending links: an empty line, then one line per
\* link under its own index.
RECURSIVE PendingLines(_)
PendingLines(links) ==
    IF links = <<>> THEN <<>>
    ELSE <<[w |-> "linkref", s |-> Head(links).target, n |-> Head(links).index],
           VisibleNewline>> \o PendingLines(Tail(links))

PendingBlock(links) ==
    IF links = <<>> THEN <<>> ELSE <<VisibleNewline>> \o PendingLines(links)

BlankLineUnless(margin_before, none) ==
    IF margin_before \in none THEN <<>> ELSE <<VisibleNewline>>

MarkIfSupported ==
    IF settings.marks = "ITerm2" THEN <<[w |-> "mark", s |-> "", n |-> 0]>> ELSE <<>>

HeadingRule(level) == <<[w |-> "heading", s |-> "U+2504", n |-> level]>>

BoldBlue ==
    [fg |-> "Blue", is_bold |-> TRUE, is_italic |-> FALSE,
     is_strikethrough |-> FALSE]

HeadingAtTopLevel ==
    /\ rstatus = "running"
    /\ IsTopLevel(state)
    /\ ev'.k = "Start"
    /\ ev'.tag.t = "Heading"

\* Start(Heading) at TopLevel writes the pending references, the margin, the
\* mark and `level` U+2504 in bold blue, in this order.
HeadingStartOrder ==
    HeadingAtTopLevel =>
        /\ Visible(rout') =
              PendingBlock(data.pending_links)
                  \o BlankLineUnless(Inner(state).margin_before, {"NoMargin"})
                  \o MarkIfSupported \o HeadingRule(ev'.tag.n)
        /\ settings.style = "Ansi" =>
              rout'[Len(rout')].ansi /\ rout'[Len(rout')].style = BoldBlue
        /\ data'.pending_links = <<>>

\* The End of a heading that was opened at TopLevel writes one newline and is
\* back at TopLevel with Margin.
HeadingEnd ==
    (rstatus = "running" /\ Len(open) = 1 /\ ev'.k = "End"
        /\ ev'.tag.t = "Heading") =>
        /\ rstatus' = "running"
        /\ rout' = <<Newline>>
        /\ state' = TopLevel("Margin")

\* C15 as stated: the order of the writes of a top-level heading; as the first
\* event of the document, nothing precedes the U+2504 characters; End(Heading)
\* writes one newline and returns to TopLevel with Margin.
C15_HeadingNothingPrecedes ==
    [][/\ HeadingStartOrder
       /\ (HeadingAtTopLevel /\ ev = NoEvent) =>
              Visible(rout') = HeadingRule(ev'.tag.n)
       /\ HeadingEnd]_vars

\* C15, amended: as the first event of the document, only the mark (where the
\* terminal supports marks) precedes the U+2504 characters.
C15_HeadingOnlyMarkPrecedes ==
    [][/\ HeadingStartOrder
       /\ (HeadingAtTopLevel /\ ev = NoEvent) =>
              Visible(rout') = MarkIfSupported \o HeadingRule(ev'.tag.n)
       /\ HeadingEnd]_vars

C15_Witness ==
    /\ rstatus = "running"
    /\ ev.k = "Start" /\ ev.tag.t = "Heading"
    /\ Len(RefsOf(rout)) = 2
    /\ Len(rout) = 8
    /\ rout[7].w = "mark"

C15_WitnessFirstEvent ==
    /\ rstatus = "running"
    /\ ev.k = "Start" /\ ev.tag.t = "Heading"
    /\ Len(rout) = 2
    /\ rout[1].w = "mark"
    /\ state[1].margin_before = "Margin"
    /\ Len(open) = 1
    /\ rissued = <<>>

C15_WitnessEnd ==
    /\ rstatus = "running"
    /\ ev.k = "End" /\ ev.tag.t = "Heading"
    /\ state = TopLevel("Margin")
    /\ rissued = <<1>>

\* The frames that accept a Rule.
AcceptsRule(st) ==
    \/ Inner(st).kind \in {"TopLevel", "StyledBlock"}
    \/ Inner(st).kind = "Inline" /\ Inner(st).sub = "ListItemText"

\* C16: a Rule in TopLevel, in a StyledBlock or on the first line of a list
\* item writes, after the margin, exactly terminal_width U+2550 characters and
\* then a newline.
C16_RuleSpansTerminalWidth ==
    [][(rstatus = "running" /\ ev'.k = "Rule" /\ AcceptsRule(state)) =>
          /\ rstatus' = "running"
          /\ Len(rout') >= 2
          /\ Visible(SubSeq(rout', Len(rout') - 1, Len(rout'))) =
                <<[w |-> "rule", s |-> "U+2550", n |-> settings.width],
                  VisibleNewline>>
          /\ \A i \in 1..(Len(rout') - 2) : rout'[i].w = "nl"]_vars

\* C17: finish on the initial state, the stream being empty, writes nothing:
\* no write reaches the sink, so even a sink that refuses every write is left
\* untouched.
C17_EmptyStreamWritesNothing ==
    [][(ev = NoEvent /\ ev'.k = "Finish") =>
          /\ rstatus' = "finished"
          /\ rout' = <<>>
          /\ rtried' = 0
          /\ sink' = sink]_vars

C17_Witness ==
    /\ ev.k = "Finish"
    /\ rstatus = "finished"
    /\ state = StateDefault
    /\ sink.fails
    /\ sink.left = 0

BlockEntering(e) ==
    \/ e.k = "Rule"
    \/ e.k = "Start"
          /\ e.tag.t \in {"Paragraph", "Heading", "BlockQuote", "CodeBlock", "List"}

InBlockFrame(st) == Inner(st).kind \in {"TopLevel", "StyledBlock"}

RECURSIVE LeadingNewlines(_)
LeadingNewlines(out) ==
    IF out # <<>> /\ Head(out).w = "nl" THEN 1 + LeadingNewlines(Tail(out)) ELSE 0

\* The writes of a step after the reference block that a top-level heading
\* writes first.
AfterReferences(out, st, d, e) ==
    IF IsTopLevel(st) /\ e.k = "Start" /\ e.tag.t = "Heading"
    THEN SubSeq(out, Len(PendingBlock(d.pending_links)) + 1, Len(out))
    ELSE out

MarginOf(e, margin_before) ==
    IF e.k = "Html"
    THEN (IF margin_before = "Margin" THEN 1 ELSE 0)
    ELSE (IF margin_before \in {"Margin", "NoMarginForHTMLOnly"} THEN 1 ELSE 0)

\* The margin protocol on the events in accepted.
MarginProtocol(accepted) ==
    /\ (rstatus = "running" /\ InBlockFrame(state) /\ BlockEntering(ev')
            /\ accepted) =>
          LeadingNewlines(AfterReferences(rout', state, data, ev')) =
              MarginOf(ev', Inner(state).margin_before)
    /\ (rstatus = "running" /\ InBlockFrame(state) /\ ev'.k = "Html") =>
          /\ LeadingNewlines(rout') = MarginOf(ev', Inner(state).margin_before)
          /\ Len(state') = Len(state)
          /\ Inner(state').margin_before = "NoMarginForHTMLOnly"
    /\ ev = NoEvent => LeadingNewlines(rout') = 0

\* C18: in TopLevel and in a StyledBlock, Start of Paragraph, Heading,
\* BlockQuote, CodeBlock or List, or a Rule, writes one blank line iff the
\* frame's margin_before is Margin or NoMarginForHTMLOnly; Html writes one iff
\* it is Margin and leaves NoMarginForHTMLOnly; nothing precedes the first block.
C18_MarginProtocol == [][MarginProtocol(TRUE)]_vars

\* The same on the pairs of frame and event that write_event has an arm for:
\* all but Start(BlockQuote) in a StyledBlock.
MarginProtocolOfEveryArm ==
    [][MarginProtocol(~(Inner(state).kind = "StyledBlock"
                          /\ ev'.k = "Start" /\ ev'.tag.t = "BlockQuote"))]_vars

\* C19: after Start of Paragraph, Heading, BlockQuote, CodeBlock or List, or a
\* Rule, taken from TopLevel or from a StyledBlock, the margin_before of that
\* frame, to which the child returns, is Margin.
C19_ParentMarginAfterBlock ==
    [][(rstatus = "running" /\ InBlockFrame(state) /\ BlockEntering(ev')
            /\ rstatus' = "running") =>
          /\ Len(state') >= Len(state)
          /\ state'[Len(state)].kind = Inner(state).kind
          /\ state'[Len(state)].margin_before = "Margin"]_vars

\* C20: after End(CodeBlock) the machine is back in the enclosing frame, whose
\* margin_before is NoMargin.
C20_NoMarginAfterCodeBlock ==
    [][(rstatus = "running" /\ ev'.k = "End" /\ ev'.tag.t = "CodeBlock"
            /\ rstatus' = "running") =>
          /\ Len(state') = Len(state) - 1
          /\ Inner(state').kind \in {"TopLevel", "StyledBlock"}
          /\ Inner(state').margin_before = "NoMargin"]_vars

\* ------------------------------------------------------------------ claims: indent and lists
\* The frame below the innermost one: the parent the innermost frame returns to.
Parent(st) == st[Len(st) - 1]

\* The indent a frame opened by tag takes under a parent frame.
ChildIndent(tag, parent) ==
    CASE tag.t = "BlockQuote" -> parent.indent + 4
      [] tag.t = "Item" ->
            parent.indent + (IF parent.item_type = "Ordered" THEN 4 ELSE 2)
      [] tag.t = "CodeBlock" -> parent.indent

ChildKinds(tag) ==
    CASE tag.t = "BlockQuote" -> {"StyledBlock"}
      [] tag.t = "Item" -> {"Inline"}
      [] tag.t = "CodeBlock" -> {"LiteralBlock", "HighlightBlock"}

OpensIndentedFrame ==
    ev.k = "Start" /\ ev.tag.t \in {"BlockQuote", "Item", "CodeBlock"}

IndentOfChild ==
    /\ Len(state) >= 2
    /\ Inner(state).kind \in ChildKinds(ev.tag)
    /\ Inner(state).indent = ChildIndent(ev.tag, Parent(state))

\* C21: a block quote's frame has its parent's indent + 4, also in another
\* quote or in a list item; an item's inline frame has the list's indent + 2
\* (unordered) or + 4 (ordered); a code block's frame has its parent's indent.
C21_IndentPropagation ==
    (wf /\ OpensIndentedFrame) => (rstatus = "running" /\ IndentOfChild)

\* The same on the steps write_event has an arm for: every frame that is
\* pushed has the indent of the claim.
IndentOfEveryArm ==
    (wf /\ OpensIndentedFrame /\ rstatus = "running") => IndentOfChild

\* Every newline among the writes out is directly followed by indent spaces
\* (by no space at all for indent 0).
NewlinesIndented(out, indent) ==
    \A i \in 1..Len(out) :
        out[i].w \in {"nl", "textnl"} =>
            IF indent = 0
            THEN i = Len(out) \/ out[i + 1].w # "indent"
            ELSE i < Len(out) /\ out[i + 1].w = "indent" /\ out[i + 1].n = indent

BreakInInline ==
    ev.k \in {"SoftBreak", "HardBreak"} /\ Inner(state).kind = "Inline"

TextInCodeBlock ==
    ev.k = "Text" /\ Inner(state).kind \in {"LiteralBlock", "HighlightBlock"}

\* C22: the newline of a SoftBreak or HardBreak in an inline frame, and every
\* newline that ends a line of a Text in a LiteralBlock or HighlightBlock, is
\* directly followed by the indent of the frame.
C22_NewlineFollowedByIndent ==
    (rstatus = "running" /\ (BreakInInline \/ TextInCodeBlock)) =>
        NewlinesIndented(rout, Inner(state).indent)

\* The same without the HighlightBlock.
NewlineFollowedByIndentOutsideHighlight ==
    (rstatus = "running"
        /\ (BreakInInline \/ (TextInCodeBlock /\ Inner(state).kind = "LiteralBlock"))) =>
        NewlinesIndented(rout, Inner(state).indent)

\* The list an item that has just started belongs to, as the stream has it:
\* its tag and the number of items started in it so far.
ListOfItem == open[Len(open) - 1]

\* C23: Start(Item) writes a newline before the item iff it is not the first
\* item of its list, and the k-th item of an ordered list started at s is
\* written with the number s + k - 1.
C23_ItemNewlineAndNumber ==
    (rstatus = "running" /\ ev = Start(Item)) =>
        /\ LeadingNewlines(rout) = (IF ListOfItem.items > 1 THEN 1 ELSE 0)
        /\ rout # <<>>
        /\ rout[Len(rout)].w = (IF ListOfItem.tag.s = "None" THEN "bullet" ELSE "number")
        /\ ListOfItem.tag.s # "None" =>
              rout[Len(rout)].n = ListOfItem.tag.n + ListOfItem.items - 1
        /\ \A i \in 1..(Len(rout) - 1) : rout[i].w \in {"nl", "indent"}

C23_Witness ==
    /\ rstatus = "running"
    /\ ev = Start(Item)
    /\ ListOfItem.tag = List("Some", 99)
    /\ ListOfItem.items = 2
    /\ rout[Len(rout)].n = 100
    /\ rout[1].w = "nl"

\* The numbering of context_write: the k-th item of an ordered list started at
\* s is written with the number s + k - 1.
CtxItemNumber ==
    (cstatus = "running" /\ ev = Start(Item) /\ ListOfItem.tag.s # "None") =>
        /\ cout # <<>>
        /\ cout[Len(cout)].w = "number"
        /\ cout[Len(cout)].n = ListOfItem.tag.n + ListOfItem.items - 1

InListItemText(st) == Inner(st).kind = "Inline" /\ Inner(st).sub = "ListItemText"

\* The blocks a list item may hold as its first child.
ItemBlockChild(e) ==
    \/ e.k = "Rule"
    \/ e.k = "Start" /\ e.tag.t \in {"Paragraph", "CodeBlock", "List"}

BlockChildInItemText ==
    rstatus = "running" /\ InListItemText(state) /\ ItemBlockChild(ev')

\* C24 as stated: a Start(Paragraph), Start(CodeBlock), Rule or Start(List)
\* that arrives in ListItemText writes no newline before the block.
C24_BlockOnMarkerLine ==
    [][BlockChildInItemText => LeadingNewlines(rout') = 0]_vars

\* C24, amended: only a paragraph stays on the line of the marker; a code
\* block, a rule and a nested list are put on the next line by one newline.
C24_OnlyParagraphOnMarkerLine ==
    [][BlockChildInItemText =>
          LeadingNewlines(rout') =
              (IF ev'.k = "Start" /\ ev'.tag.t = "Paragraph" THEN 0 ELSE 1)]_vars

C24_Witness ==
    /\ rstatus = "running"
    /\ ev.k = "Start" /\ ev.tag.t = "List"
    /\ Len(open) = 3
    /\ open[2].tag = Item
    /\ rout = <<Newline>>
    /\ Parent(state).kind = "StyledBlock"
    /\ Parent(state).margin_before = "Margin"

\* The StyledBlock that has replaced the frame of a list item.
InItemBlock(st) ==
    /\ Len(st) >= 3
    /\ Inner(st).kind = "StyledBlock"
    /\ Parent(st).kind = "ListBlock"

LaterItemBlock(e) ==
    e.k = "Start" /\ e.tag.t \in {"Paragraph", "CodeBlock", "List"}

ListOfEndedItem == open[Len(open)]

\* C26: End(Item) returns to the ListBlock frame of the item's list, with the
\* counter and newline_before that Start(Item) left there; End(List) writes a
\* newline iff it returns to TopLevel, and nothing for a nested list.
C26_EndItemEndList ==
    /\ (rstatus = "running" /\ ev = End(Item)) =>
          /\ Len(state) = Len(open) + 1
          /\ Inner(state).kind = "ListBlock"
          /\ Inner(state).item_type = ListItemTypeOf(ListOfEndedItem.tag)
          /\ Inner(state).newline_before
          /\ Inner(state).no =
                (IF ListOfEndedItem.tag.s = "None" THEN ListOfEndedItem.tag.n
                 ELSE ListOfEndedItem.tag.n + ListOfEndedItem.items)
          /\ rout = <<>>
    /\ (rstatus = "running" /\ ev.k = "End" /\ ev.tag.t = "List") =>
          /\ Len(state) = Len(open) + 1
          /\ Inner(state).kind \in {"TopLevel", "StyledBlock"}
          /\ rout = (IF open = <<>> THEN <<Newline>> ELSE <<>>)
          /\ open = <<>> <=> IsTopLevel(state)

C26_Witness ==
    /\ rstatus = "running"
    /\ ev = End(Item)
    /\ Len(open) = 2
    /\ open[1].tag = BlockQuote
    /\ open[2].tag = List("Some", 99)
    /\ open[2].items = 2
    /\ Inner(state).no = 101
    /\ Inner(state).indent = 4

C26_WitnessNestedEnd ==
    /\ rstatus = "running"
    /\ ev.k = "End" /\ ev.tag.t = "List"
    /\ Len(open) = 2
    /\ open[2].tag = Item
    /\ rout = <<>>

\* ------------------------------------------------------------------ claims: inline markup
MarkupTags == {"Emphasis", "Strong", "Strikethrough", "Link"}

\* The style of the frame that the Start of inline markup pushes.
MarkupStyle(t, style) ==
    CASE t = "Emphasis" -> [style EXCEPT !.is_italic = ~style.is_italic]
      [] t = "Strong" -> [style EXCEPT !.is_bold = TRUE]
      [] t = "Strikethrough" -> [style EXCEPT !.is_strikethrough = TRUE]
      [] t = "Link" -> [style EXCEPT !.fg = "Blue"]

InsideMarkup == open # <<>> /\ open[Len(open)].tag.t \in MarkupTags

\* The markup of render::write_event: the Start of Emphasis, Strong,
\* Strikethrough or Link pushes an inline frame whose style is the parent's
\* with italic negated, bold set, strikethrough set or foreground blue, and
\* with the parent's indent, on top of the unchanged state; inside the markup
\* every step leaves the frames below alone, and the matching End pops the
\* frame, so that the state is again the state before the Start.
MarkupStyleOfRender ==
    [][(rstatus = "running" /\ rstatus' = "running") =>
          /\ (ev'.k = "Start" /\ ev'.tag.t \in MarkupTags) =>
                /\ ReturnTo(state') = state
                /\ Inner(state').kind = "Inline"
                /\ Inner(state').style = MarkupStyle(ev'.tag.t, Inner(state).style)
                /\ Inner(state').indent = Inner(state).indent
          /\ (ev'.k = "End" /\ ev'.tag.t \in MarkupTags) =>
                state' = ReturnTo(state)
          /\ (InsideMarkup /\ ev'.k \notin {"Start", "End", "Finish"}) =>
                state' = state]_vars

\* C27: the Start of Emphasis pushes a style whose italic flag is the negation
\* of the parent's, Strong one with bold set, Strikethrough one with
\* strikethrough set, all other attributes being the parent's; here for the
\* styles of context_write, whose parent style is the one on top of previous.
C27_MarkupStyle ==
    (cstatus = "running" /\ ev.k = "Start"
        /\ ev.tag.t \in {"Emphasis", "Strong", "Strikethrough"}) =>
        /\ ctx.style.previous # <<>>
        /\ ctx.style.current =
              MarkupStyle(ev.tag.t, ctx.style.previous[Len(ctx.style.previous)])

\* ------------------------------------------------------------------ claims: links, images, code blocks
\* A link is written as a hyperlink: the terminal has OSC 8 links and the
\* target resolves to a URL.
AsHyperlink(tag) == settings.links = "OSC8" /\ ResolveReference(tag.target)

IsLinkEvent(k) == ev.k = k /\ ev.tag.t = "Link"

\* What a link writes at its Start and at its End, given the index n that
\* was allocated last.
LinkWrites(out, n) ==
    /\ IsLinkEvent("Start") =>
          Visible(out) =
              (IF AsHyperlink(ev.tag)
               THEN <<[w |-> "osc8-open", s |-> ev.tag.target, n |-> 0]>>
               ELSE <<>>)
    /\ IsLinkEvent("End") =>
          Visible(out) =
              CASE AsHyperlink(ev.tag) -> <<[w |-> "osc8-close", s |-> "", n |-> 0]>>
                [] ~AsHyperlink(ev.tag) /\ ev.tag.s \in {"Autolink", "Email"} -> <<>>
                [] OTHER -> <<[w |-> "ref", s |-> "[{}]", n |-> n]>>

\* C28: a link is written as a hyperlink, opened at Start(Link) and closed at
\* End(Link), iff the terminal has OSC 8 links and the target resolves;
\* otherwise End(Link) allocates the next index and writes '[N]', unless the
\* link is an autolink or an email link, which writes nothing.  An index is
\* allocated exactly when its '[N]' is written.
C28_LinkDecision ==
    cstatus = "running" =>
        /\ LinkWrites(cout, ctx.links.next_link_index - 1)
        /\ ctx.links.next_link_index = Len(cissued) + 1

C28_Witness ==
    /\ cstatus = "running"
    /\ ev = End(Link("Inline", "doc.md"))
    /\ settings.links = "OSC8"
    /\ Len(cout) = 1
    /\ cout[1].w = "ref"
    /\ cout[1].n = 2

\* The same decision in render::write_event, on the steps it has an arm for.
LinkDecisionOfRender ==
    rstatus = "running" =>
        /\ LinkWrites(rout, data.next_link - 1)
        /\ data.next_link = Len(rissued) + 1

\* The innermost image that is open.
InnermostImage(o) ==
    o[CHOOSE i \in 1..Len(o) :
          /\ o[i].tag.t = "Image"
          /\ \A j \in (i + 1)..Len(o) : o[j].tag.t # "Image"]

ImageUrlUsable(target) == ResolveReference(target) /\ Permits(target)

WritesImageLink(out) == \E i \in 1..Len(out) : out[i].w = "imagelink"

\* An image is rendered inline only with an image capability and a URL
\* that resolves and is permitted, and always by Terminology with such a URL.
ImageStartProtocol ==
    (ev'.k = "Start" /\ ev'.tag.t = "Image") =>
        LET shown == open'[Len(open')].inline
        IN  /\ shown => (settings.image # "None" /\ ImageUrlUsable(ev'.tag.target))
            /\ (settings.image = "Terminology" /\ ImageUrlUsable(ev'.tag.target))
                   => shown

\* A Text event in an image is discarded iff the image was rendered inline.
ImageTextProtocol ==
    (ev'.k = "Text" /\ InImage(open')) =>
        (cout' = <<>>) = InnermostImage(open').inline

\* End(Image) appends the link iff the image was not rendered inline, and
\* leaves the suppression flag false.
ImageEndProtocol ==
    (ev'.k = "End" /\ ev'.tag.t = "Image") =>
        /\ WritesImageLink(cout') = ~open[Len(open)].inline
        /\ ~ctx'.image.inline_image

ImageProtocol ==
    cstatus' = "running" =>
        (ImageStartProtocol /\ ImageTextProtocol /\ ImageEndProtocol)

\* C29: between Start(Image) and End(Image) a Text event is discarded iff the
\* image was rendered inline at Start(Image); End(Image) appends ' (url)' iff
\* the image was not rendered inline; and the suppression flag is false after
\* every End(Image).
C29_ImageProtocol == [][ImageProtocol]_vars

\* A code block is highlighted: the terminal has ANSI styles, the block is
\* fenced, and its language name is not empty and known to the syntax set.
Highlighted(kind) ==
    /\ settings.style = "Ansi"
    /\ kind.s = "Fenced"
    /\ kind.target # ""
    /\ kind.target \in settings.syntax_set

C30_WitnessLiteralInQuote ==
    /\ rstatus = "running"
    /\ ev = Start(CodeBlock("Fenced", "zz"))
    /\ settings.style = "Ansi"
    /\ Inner(state).kind = "LiteralBlock"
    /\ Inner(state).style.is_italic

\* ------------------------------------------------------------------ claims: widths
IsCodeBlockEvent == ev.k \in {"Start", "End"} /\ ev.tag.t = "CodeBlock"

BorderLengths(out) == {out[i].n : i \in {j \in 1..Len(out) : out[j].w = "border"}}

\* The borders a step of either renderer writes at this width.
BordersWritten == BorderLengths(rout) \cup BorderLengths(CtxWriteBorder(ContextNew))

\* C31 as stated: the top and the bottom border of a code block have the same
\* length, which is at least 20 and at most the terminal width.
C31_BorderAtLeastTwenty ==
    (rstatus = "running" /\ IsCodeBlockEvent) =>
        /\ Cardinality(BordersWritten) = 1
        /\ \A n \in BordersWritten : n >= 20 /\ n <= settings.width

\* C31: the top and the bottom border of a code block have the same length,
\* which is the smaller of 20 and the terminal width.
C31_BorderAtMostTwenty ==
    (rstatus = "running" /\ IsCodeBlockEvent) =>
        /\ Cardinality(BordersWritten) = 1
        /\ \A n \in BordersWritten :
              /\ n <= 20
              /\ n <= settings.width
              /\ n = 20 \/ n = settings.width

C31_Witness ==
    /\ rstatus = "running"
    /\ ev.k = "End"
    /\ ev.tag.t = "CodeBlock"
    /\ settings.width = 2
    /\ BorderLengths(rout) = {2}

\* ------------------------------------------------------------------ claims: nested headings
IsNestedHeadingStart == ev.k = "Start" /\ ev.tag.t = "Heading" /\ Len(open) > 1

HeadingTokens(out) == {i \in 1..Len(out) : out[i].w = "heading"}

WritesMark(out) == \E i \in 1..Len(out) : out[i].w = "mark"

\* A heading in a block: no mark, `level` U+2504 in a bold style that is not
\* blue, directly after `indent` columns of indent.
NestedHeadingWrites(out, indent) ==
    /\ ~WritesMark(out)
    /\ Cardinality(HeadingTokens(out)) = 1
    /\ \A i \in HeadingTokens(out) :
          /\ i = Len(out)
          /\ out[i].n = ev.tag.n
          /\ settings.style = "Ansi" =>
                (out[i].style.is_bold /\ out[i].style.fg # "Blue")
          /\ indent > 0 =>
                (i > 1 /\ out[i - 1].w = "indent" /\ out[i - 1].n = indent)

\* C32: a Start(Heading) that is not at top level writes no mark and writes
\* the block's indent and then `level` U+2504 in the enclosing block's style
\* made bold, not blue; here for context_write.
C32_NestedHeadingUnmarked ==
    (cstatus = "running" /\ IsNestedHeadingStart) =>
        NestedHeadingWrites(cout, ctx.block.indent_level)

\* The same for render::write_event, where the enclosing block's style is the
\* style of the StyledBlock frame below the heading's frame.
NestedHeadingOfRender ==
    (rstatus = "running" /\ IsNestedHeadingStart) =>
        /\ NestedHeadingWrites(rout, Parent(state).indent)
        /\ Parent(state).kind = "StyledBlock"
        /\ Inner(state).style = Bold(Parent(state).style)
        /\ settings.style = "Ansi" =>
              rout[Len(rout)].style = Bold(Parent(state).style)

\* ------------------------------------------------------------------ claims: item markers
IsOrderedItemStart == ev = Start(Item) /\ ListOfItem.tag.s # "None"

\* The columns the marker written last takes.
MarkerColumns(out) ==
    IF out[Len(out)].w = "number"
    THEN NumberMarkerColumns(out[Len(out)].n)
    ELSE BulletMarkerColumns

\* C33: for every item number n of an ordered list, the marker written by
\* Start(Item) takes exactly 4 columns, the amount by which the indent of the
\* item exceeds the indent of its list.
C33_MarkerColumnsAreIndent ==
    (rstatus = "running" /\ IsOrderedItemStart) =>
        /\ rout # <<>>
        /\ MarkerColumns(rout) = 4
        /\ Inner(state).indent - Parent(state).indent = MarkerColumns(rout)

\* The markers of numbers below 100, and the bullets, take the columns the
\* indent grows by.
MarkerColumnsBelowHundred ==
    (rstatus = "running" /\ ev = Start(Item) /\ rout # <<>>
        /\ rout[Len(rout)].n < 100) =>
        Inner(state).indent - Parent(state).indent = MarkerColumns(rout)

\* The same for context_write, against the indent of the enclosing list.
CtxMarkerColumnsBelowHundred ==
    (cstatus = "running" /\ ev = Start(Item) /\ cout # <<>>
        /\ cout[Len(cout)].n < 100) =>
        \/ Len(cout) = 1 /\ ctx.block.indent_level = MarkerColumns(cout)
        \/ /\ Len(cout) = 2
           /\ cout[1].w = "indent"
           /\ ctx.block.indent_level - cout[1].n = MarkerColumns(cout)

\* ------------------------------------------------------------------ claims: frames and open tags
\* The NestedState wrappers around TopLevel.
Depth(st) == Len(st) - 1

\* C34: after every accepted event of a well-formed stream, the depth of the
\* frame chain is the number of tags that are open, also after the frame of
\* a list item's text has been replaced by the frame of a block.
C34_DepthIsOpenTags ==
    (wf /\ rstatus = "running") => Depth(state) = Len(open)

C34_Witness ==
    /\ wf
    /\ rstatus = "running"
    /\ ev = Rule
    /\ open # <<>>
    /\ open[Len(open)].tag = Item
    /\ Inner(state).kind = "StyledBlock"
    /\ Depth(state) = 3

\* ------------------------------------------------------------------ claims: the end of a block
ClosesBlock(e) ==
    \/ e.k = "Rule"
    \/ e.k = "End"
        /\ e.tag.t \in {"Paragraph", "Heading", "BlockQuote", "CodeBlock", "List"}

LastIsNewline(out) == out = <<>> \/ out[Len(out)].w = "nl"

\* C35: whenever write_event is back at TopLevel after closing a block, the
\* last byte written so far is a newline.
C35_NewlineBeforeTopLevel ==
    (rstatus = "running" /\ ClosesBlock(ev) /\ IsTopLevel(state)) =>
        LastIsNewline(doc.out)

\* The same for every block but a block quote.
NewlineBeforeTopLevelButQuote ==
    (rstatus = "running" /\ ClosesBlock(ev) /\ IsTopLevel(state)
        /\ ev.tag.t # "BlockQuote") =>
        LastIsNewline(doc.out)

\* ------------------------------------------------------------------ claims: hyperlinks
Count(out, w) == Cardinality({i \in 1..Len(out) : out[i].w = w})

\* render::write_event is in a hyperlink: a frame of the chain is InlineLink.
InHyperlink(st) == \E i \in 1..Len(st) : st[i].sub = "InlineLink"

ClosesTextBlock(e) ==
    e.k = "Finish" \/ (e.k = "End" /\ e.tag.t \in {"Paragraph", "Heading", "Item"})

\* One step keeps the OSC 8 sequences balanced: with `was` telling whether a
\* hyperlink was open in the output before the writes out, at most one
\* sequence is written, an open one only outside and a close one only inside
\* a hyperlink, and `now` tells whether a hyperlink is open afterwards.
BalancedStep(was, out, now) ==
    /\ Count(out, "osc8-open") + Count(out, "osc8-close") <= 1
    /\ Count(out, "osc8-open") = 1 => ~was
    /\ Count(out, "osc8-close") = 1 => was
    /\ now = ((was /\ Count(out, "osc8-close") = 0) \/ Count(out, "osc8-open") = 1)

\* The steps of render::write_event that are accepted keep the sequences
\* balanced, InHyperlink telling whether a hyperlink is open in the output,
\* and none is open where a paragraph, heading or item or the stream ends.
RenderBalancedStep ==
    (wf' /\ rstatus' = "running") =>
        /\ BalancedStep(InHyperlink(state), rout', InHyperlink(state'))
        /\ ClosesTextBlock(ev') => ~InHyperlink(state')

HyperlinksBalancedWhileAccepted == [][RenderBalancedStep]_vars

\* C36: in the output of a well-formed stream the OSC 8 sequences are balanced
\* and not nested: every open sequence is followed by its close sequence
\* before the next open sequence and before the enclosing paragraph, heading
\* or item ends, so that no run ends in a hyperlink; and no close sequence is
\* written outside a hyperlink.
C36_HyperlinksBalanced ==
    [][/\ RenderBalancedStep
       /\ (wf' /\ rstatus = "running" /\ rstatus' # "running") =>
              (~InHyperlink(state) /\ Count(rout', "osc8-open") = 0)]_vars

\* The same for context_write, whose flag inside_inline_link tells whether a
\* hyperlink is open in the output.
CtxHyperlinksBalanced ==
    [][(wf' /\ cstatus = "running") =>
          /\ BalancedStep(ctx.links.inside_inline_link, cout',
                          ctx'.links.inside_inline_link)
          /\ (ClosesTextBlock(ev') \/ cstatus' # "running") =>
                ~ctx'.links.inside_inline_link]_vars

\* In a hyperlink, write_event accepts every event but the Start of an image.
HyperlinkAbortsOnlyOnImage ==
    [][(wf' /\ rstatus = "running" /\ InHyperlink(state)
          /\ rstatus' = "panicked") =>
          (ev'.k = "Start" /\ ev'.tag.t = "Image")]_vars

\* ------------------------------------------------------------------ claims: nested lists
OpenLists == {i \in 1..Len(open) : open[i].tag.t = "List"}

\* The indent of the list open[i]: 2 for every unordered and 4 for every
\* ordered item it is in.
EnclosingIndent(i) ==
    2 * Cardinality({j \in 2..(i - 1) :
                        open[j].tag.t = "Item" /\ open[j - 1].tag.s = "None"})
    + 4 * Cardinality({j \in 2..(i - 1) :
                          open[j].tag.t = "Item" /\ open[j - 1].tag.s # "None"})

\* The frame of the list open[i] in render::write_event is the one its own
\* Start and its own items made.
ListFrameIsOwn(i) ==
    LET frame == state[i + 1]
        list == open[i]
    IN  /\ frame.kind = "ListBlock"
        /\ frame.item_type = (IF list.tag.s = "None" THEN "Unordered" ELSE "Ordered")
        /\ list.tag.s # "None" => frame.no = list.tag.n + list.items
        /\ frame.newline_before = (list.items > 0)
        /\ frame.indent = EnclosingIndent(i)

\* The entry of the k-th open list in context_write is the one its own Start
\* and its own items made.
ListKindIsOwn(i) ==
    LET k == Cardinality({j \in OpenLists : j <= i})
        list == open[i]
    IN  /\ k <= Len(ctx.list_item_kind)
        /\ ctx.list_item_kind[k].kind =
              (IF list.tag.s = "None" THEN "Unordered" ELSE "Ordered")
        /\ list.tag.s # "None" =>
              ctx.list_item_kind[k].number = list.tag.n + list.items

\* C37: a list nested in an item of another list leaves the type, the counter,
\* the indent and newline_before of the outer list as they were: whatever
\* was opened and closed inside, every open list has the type of its Start,
\* the number of its next item and the indent of the items around it, and an
\* item of an ordered list is written with the number after its predecessor's.
C37_OuterListUnchanged ==
    (rstatus = "running" /\ cstatus = "running") =>
        /\ \A i \in OpenLists : ListFrameIsOwn(i) /\ ListKindIsOwn(i)
        /\ ctx.block.indent_level = EnclosingIndent(Len(open) + 1)
        /\ (ev = Start(Item) /\ ListOfItem.tag.s # "None") =>
              /\ rout[Len(rout)].n = ListOfItem.tag.n + ListOfItem.items - 1
              /\ cout[Len(cout)].n = ListOfItem.tag.n + ListOfItem.items - 1

\* The third-level list of the first item of an ordered list has just ended.
C37_Witness ==
    /\ rstatus = "running"
    /\ cstatus = "running"
    /\ ev.k = "End"
    /\ ev.tag.t = "List"
    /\ Len(open) = 4
    /\ open[1].tag = List("Some", 99)
    /\ open[3].tag = List("None", 0)
    /\ open[3].items = 2
    /\ state[2].no = 100

\* The second item of an ordered list starts after a list in its first item.
C37_WitnessNextItem ==
    /\ rstatus = "running"
    /\ ev = Start(Item)
    /\ Len(open) = 4
    /\ open[3].tag = List("Some", 99)
    /\ open[3].items = 2
    /\ rout[Len(rout)].n = 100
    /\ cout[Len(cout)].n = 100

\* ------------------------------------------------------------------ claims: rules in blocks
\* C38: the length of a rule in a nested block, terminal_width - indent, never
\* underflows: when a Rule arrives in a StyledBlock or ListItemText frame the
\* indent of the frame is at most the terminal width, and the rule is written.
C38_RuleNeverUnderflows ==
    (wf /\ ev = Rule /\ open # <<>>) =>
        /\ rstatus = "running"
        /\ Inner(state).kind = "StyledBlock"
        /\ Inner(state).indent <= settings.width

\* On terminals at least as wide as the indent the rule fills the rest of
\* the line.
RuleFillsLine ==
    (wf /\ ev = Rule /\ rstatus = "running") =>
        /\ Count(rout, "rule") = 1
        /\ \A i \in 1..Len(rout) :
              rout[i].w = "rule" => rout[i].n = settings.width - Inner(state).indent

\* ------------------------------------------------------------------ claims: the two renderers
\* The event processed last belongs to a top-level paragraph or heading of
\* text, code, breaks and markup, or is the end of the stream.
InSimpleBlock ==
    \/ ev.k \in {"None", "Finish"}
    \/ open # <<>> /\ open[1].tag.t \in {"Paragraph", "Heading"}
    \/ open = <<>> /\ ev.k = "End" /\ ev.tag.t \in {"Paragraph", "Heading"}

\* C39: on a well-formed stream of top-level paragraphs and headings holding
\* Text, Code, SoftBreak, HardBreak, Emphasis, Strong and Strikethrough, both
\* renderers accept every event and the finalisation, and at each of them
\* write the same styled text chunks, newlines and indents.
C39_RenderersAgree ==
    (wf /\ InSimpleBlock) =>
        /\ rstatus = cstatus
        /\ rstatus # "panicked"
        /\ rout = cout

\* Both renderers have written an italic text inside a heading with its style.
C39_Witness ==
    /\ wf /\ InSimpleBlock /\ settings.style = "Ansi"
    /\ ev.k = "Text"
    /\ Len(open) = 2 /\ open[1].tag.t = "Heading" /\ open[2].tag = Emphasis
    /\ cout # <<>> /\ rout = cout
    /\ cout[1].ansi /\ cout[1].style = Italic(Bold(Fg(StyleNew, "Blue")))

\* Both renderers have finished a stream, and neither wrote at its end.
C39_WitnessFinished ==
    /\ wf /\ ev.k = "Finish" /\ rstatus = "finished" /\ cstatus = "finished"
    /\ rout = <<>> /\ cout = <<>>

====
